---- MODULE Spec2Model ----
(***************************************************************************)
(* Broker transport of the VistA RPC client (broker_rpc.py):               *)
(*   RPCConnection / VistARPCConnection  - socket lifecycle, the four-step *)
(*       handshake, invokeRPC with its single recovery attempt,            *)
(*       readToEndMarker;                                                  *)
(*   RPCConnectionPool - the LIFO store of prebuilt connections with       *)
(*       invokeRPC and preconnect used by concurrent threads.              *)
(*                                                                         *)
(* A call on a connection (connect, invokeRPC, close) touches only that     *)
(* connection, so it is one action; its result is any of the runs the      *)
(* code can make, one for each way the peer and the socket may behave.     *)
(*   Spec   - threads calling RPCConnectionPool.invokeRPC / preconnect;    *)
(*   SpecT  - one client driving a VistARPCConnection directly with        *)
(*            connect(), invokeRPC() and close(), as main() does.          *)
(*   SpecSucceeding - the pool's threads when no transport call fails.    *)
(*   SpecNote - one call of VistaRpcClient.create_note, create_addendum    *)
(*            or _set_document_text (RPC Demo, vista_rpc_client.py).       *)
(*                                                                         *)
(* Text is a sequence of characters.  NUL is "\x00", EOT is chr(4); the    *)
(* characters ACCEPT, BADPAIR, NOCTX and NOTONSERVER each stand for the    *)
(* literal text the handshake's regular expressions look for.              *)
(***************************************************************************)
EXTENDS Integers, Sequences, FiniteSets, TLC

\* ------------------------------------------------------------------ bounds
PoolSize == 2
NumCallers == 3

Conns == 1..PoolSize
Callers == 1..NumCallers

\* ------------------------------------------------------------- characters
NUL == "NUL"
EOT == "EOT"
ACCEPT == "accept"
BADPAIR == "Not a valid ACCESS CODE/VERIFY CODE pair"
NOCTX == "Application context has not been created"
NOTONSERVER == "does not exist on server"

\* endMark passed by VistARPCConnection.__init__ : chr(4)
VistAEndMark == EOT

\* names of the requests written to the socket
TCPConnect == "TCPConnect"
SignonSetup == "XUS SIGNON SETUP"
AVCode == "XUS AV CODE"
CreateContext == "XWB CREATE CONTEXT"
BYE == "#BYE#"
RpcNames == {"ORWPT ID INFO", "XWB EGCHO STRING"}

\* ----------------------------------------------------------- the broker
\* What the peer does during one read: the chunks successive recv() calls
\* return; after the last chunk the peer has closed the stream (recv
\* returns the empty chunk).
AcceptReply == << <<NUL, NUL, ACCEPT, EOT>> >>
TextReply == << <<NUL, NUL, "x">>, <<"y", EOT>> >>
ClosedReply == << >>
PartialReply == << <<"x">> >>
BadPairReply == << <<NUL, NUL, BADPAIR, EOT>> >>
NoContextReply == << <<NUL, NUL, "x", NOCTX, EOT>> >>
NotOnServerReply == << <<NUL, NUL, "x", NOTONSERVER, EOT>> >>
EmptyMarkedReply == << <<EOT>> >>
LoneNulReply == << <<NUL>> >>

\* One request/reply exchange as the environment decides it: the send
\* raises socket.error, the recv raises socket.error, or the peer answers
\* with a stream of chunks.
IO(err, stream) == [err |-> err, stream |-> stream]

Broker ==
    {IO("send", <<>>), IO("recv", <<>>)} \cup
    {IO("none", s) : s \in {AcceptReply, TextReply, ClosedReply, PartialReply,
                            BadPairReply, NoContextReply, NotOnServerReply,
                            EmptyMarkedReply, LoneNulReply}}

\* ------------------------------------------------------------------ state
VARIABLES
    connectionQueue,  \* RPCConnectionPool.__connectionQueue (LifoQueue), bottom first
    sock,             \* per connection: self.sock
    ready,            \* per connection: self.sock is open and has passed the handshake
    pc,               \* per thread: position in the pool's code
    connection,       \* per thread: local variable connection (0: unset)
    connections,      \* per thread: preconnect's list, the part not yet put back
    number,           \* per thread: preconnect's clamped argument
    call,             \* the direct client's last call: operation, argument, outcome
    sequence,         \* the direct client's CIARPCConnection: self.sequence
    uid               \* the direct client's CIARPCConnection: self.uid

vars == <<connectionQueue, sock, ready, pc, connection, connections, number, call,
          sequence, uid>>

\* ------------------------------------------------------- pure functions
\* a read that keeps the end marker in the last chunk
KeepAll(s) == s
\* s[:-1]
Front(s) == SubSeq(s, 1, Len(s) - 1)
Last(s) == s[Len(s)]
Range(s) == {s[i] : i \in 1..Len(s)}

RECURSIVE Join(_)
Join(chunks) ==
    IF chunks = <<>> THEN <<>> ELSE Head(chunks) \o Join(Tail(chunks))

Contains(text, ch) == \E i \in 1..Len(text) : text[i] = ch

\* re.match(r'accept', reply)
MatchAccept(reply) == Len(reply) > 0 /\ reply[1] = ACCEPT

\* readToEndMarker's loop: stream is what recv() will still return,
\* msgChunks the chunks appended so far.
RECURSIVE ReadLoop(_, _, _)
ReadLoop(stream, msgChunks, endMark) ==
    IF stream = <<>>
    THEN [msg |-> Join(msgChunks), marked |-> FALSE, exc |-> "none"]
    ELSE LET raw == Head(stream)
             msgChunk == IF msgChunks = <<>> /\ raw[1] = NUL
                         THEN SubSeq(raw, 3, Len(raw))
                         ELSE raw
         IN  IF msgChunk = <<>>
             THEN [msg |-> <<>>, marked |-> FALSE, exc |-> "IndexError"]
             ELSE IF Last(msgChunk) = endMark
                  THEN [msg |-> Join(Append(msgChunks, Front(msgChunk))),
                        marked |-> TRUE, exc |-> "none"]
                  ELSE ReadLoop(Tail(stream), Append(msgChunks, msgChunk),
                                endMark)

readToEndMarker(stream, endMark) == ReadLoop(stream, <<>>, endMark)

\* self.sock.send(request); reply = self.readToEndMarker() on a socket in
\* state s, with the environment behaving as io.
Exchange(s, io, endMark) ==
    IF s # "open" \/ io.err = "send"
    THEN [sent |-> FALSE, read |-> FALSE, msg |-> <<>>, marked |-> FALSE,
          exc |-> "socket.error"]
    ELSE IF io.err = "recv"
    THEN [sent |-> TRUE, read |-> FALSE, msg |-> <<>>, marked |-> FALSE,
          exc |-> "socket.error"]
    ELSE LET r == readToEndMarker(io.stream, endMark)
         IN  [sent |-> TRUE, read |-> r.exc = "none", msg |-> r.msg,
              marked |-> r.marked, exc |-> r.exc]

\* the socket events of one exchange, appended to the call's log
Logged(w, name, x) ==
    w \o (IF x.sent THEN <<name>> ELSE <<>>)
      \o (IF x.read THEN <<"read">> ELSE <<>>)

Count(w, ev) == Cardinality({i \in 1..Len(w) : w[i] = ev})

\* ------------------------------------------------- a run of one call
\* sock, ready : the connection's fields as the run leaves them
\* exc         : the exception the run has raised ("none": still running or
\*               returned)
\* done        : invokeRPC has reached its return statement
\* msg, marked : invokeRPC's msg, and whether its last read ended at an end
\*               marker
\* history (not program state):
\* wire        : socket events in order: "connect", each request written,
\*               "read" for each reply read
\* entry       : self.sock when the call was entered
\* attempts    : what the peer did on invokeRPC's own exchanges
\* entryReady  : whether the transport was Ready when the call was entered
\* hsGood      : every handshake reply of the last connect() so far was a
\*               complete, non-empty, non-error reply (accept... at step 1)
\* hsBad       : for each connect() of the call, in order, the first
\*               handshake step whose reply was read and was an error reply
\*               (0: none so far)
\* hsClosed    : in the last connect() the peer had closed the stream when
\*               the reply to a request after TCPConnect was read
\* live        : the sockets the transport has created and not closed
\* tried       : self.sock at each send of invokeRPC's own request
NewRun(s, r) ==
    [sock |-> s, ready |-> r, exc |-> "none", done |-> FALSE, msg |-> <<>>,
     marked |-> FALSE, wire |-> <<>>, entry |-> s, entryReady |-> r,
     attempts |-> <<>>, hsGood |-> FALSE, hsBad |-> <<>>, hsClosed |-> FALSE,
     live |-> IF s \in {"fresh", "open"} THEN 1 ELSE 0, tried |-> <<>>]

Running(r) == r.exc = "none" /\ ~r.done

\* continue every run of S that is still running with F
Bind(S, F(_)) == UNION {IF Running(r) THEN F(r) ELSE {r} : r \in S}

\* ------------------------------------------------------ RPCConnection
\* a connect that leaves the socket it holds open
KeepOld(r) == r

\* lines 106-107: if self.sock: self.sock.close()
CloseOld(r) ==
    IF r.sock \in {"fresh", "open"}
    THEN [r EXCEPT !.sock = "closed", !.live = @ - 1]
    ELSE r

\* RPCConnection.connect: close the old socket, create a new one, TCP-connect
\* it.  When sock.connect raises, self.sock is the new, unconnected socket.
RPCConnection_connect(r) ==
    LET c == CloseOld(r)
    IN  {[c EXCEPT !.sock = IF refused THEN "fresh" ELSE "open",
                   !.live = @ + 1,
                   !.ready = FALSE,
                   !.hsGood = ~refused,
                   !.hsBad = Append(@, 0),
                   !.hsClosed = FALSE,
                   !.wire = Append(@, "connect"),
                   !.exc = IF refused THEN "socket.error" ELSE "none"]
           : refused \in BOOLEAN}

\* the request each handshake step writes
HandshakeRequest(step) ==
    CASE step = 1 -> TCPConnect
      [] step = 2 -> SignonSetup
      [] step = 3 -> AVCode
      [] step = 4 -> CreateContext

\* a handshake that accepts whatever the broker replies
AnyReplyOk(step, reply) == TRUE

\* the check VistARPCConnection.connect makes on a step's reply
HandshakeReplyOk(step, reply) ==
    CASE step = 1 -> MatchAccept(reply)
      [] step = 2 -> TRUE
      [] step = 3 -> ~Contains(reply, BADPAIR)
      [] step = 4 -> ~(Contains(reply, NOCTX) \/ Contains(reply, NOTONSERVER))

\* a reply of the peer that is complete, non-empty and, for the step, not
\* an error (history only: what a well-behaved broker answers)
GoodReply(step, io) ==
    /\ io.err = "none"
    /\ LET rr == readToEndMarker(io.stream, VistAEndMark) IN
       /\ rr.exc = "none" /\ rr.marked /\ rr.msg # <<>>
       /\ IF step = 1 THEN rr.msg[1] = ACCEPT
          ELSE ~(\E e \in {BADPAIR, NOCTX, NOTONSERVER} : Contains(rr.msg, e))

\* a reply that the handshake has to treat as fatal at the step (history
\* only): not accept... at step 1, the invalid-pair text at step 3, one of
\* the two context texts at step 4
ErrorReply(step, reply) ==
    \/ step = 1 /\ ~(Len(reply) > 0 /\ reply[1] = ACCEPT)
    \/ step = 3 /\ Contains(reply, BADPAIR)
    \/ step = 4 /\ (Contains(reply, NOCTX) \/ Contains(reply, NOTONSERVER))

\* hsBad after the step's exchange x
NoteErrorReply(bad, step, x) ==
    IF Last(bad) = 0 /\ x.read /\ ErrorReply(step, x.msg)
    THEN [bad EXCEPT ![Len(bad)] = step]
    ELSE bad

\* self.sock as a connect() that raises on a reply leaves it
SockAfterFailedHandshake(s) == s

\* VistARPCConnection.connect, one step: send, readToEndMarker, check
HandshakeStep(r, step, io) ==
    LET x == Exchange(r.sock, io, VistAEndMark)
        w == Logged(r.wire, HandshakeRequest(step), x)
        g == r.hsGood /\ GoodReply(step, io)
        h == [r EXCEPT !.wire = w, !.hsGood = g,
                       !.hsBad = NoteErrorReply(@, step, x),
                       !.hsClosed = @ \/ (step > 1 /\ x.read
                                           /\ io.stream = ClosedReply)]
    IN  IF x.exc # "none"
        THEN [h EXCEPT !.exc = x.exc]
        ELSE IF ~HandshakeReplyOk(step, x.msg)
        THEN [h EXCEPT !.exc = "Exception",
                       !.sock = SockAfterFailedHandshake(@)]
        ELSE [h EXCEPT !.ready = (step = 4)]

\* a handshake that stops after the credential check
HandshakeStepsNoContext == <<1, 2, 3>>

\* the steps VistARPCConnection.connect runs after RPCConnection.connect
HandshakeSteps == <<1, 2, 3, 4>>

RECURSIVE Handshake(_, _)
Handshake(S, steps) ==
    IF steps = <<>> THEN S
    ELSE Handshake(Bind(S, LAMBDA r : {HandshakeStep(r, Head(steps), io) :
                                       io \in Broker}),
                   Tail(steps))

\* VistARPCConnection.connect
VistARPCConnection_connect(r) ==
    Handshake(RPCConnection_connect(r), HandshakeSteps)

\* an invokeRPC that returns whatever the first attempt read
NeverRecover(m) == FALSE

\* whether invokeRPC takes the recovery path for the first attempt's msg
NeedsRecovery(m) == Len(m) = 0

\* invokeRPC, lines 84-93: the first attempt inside try/except socket.error
FirstAttempt(r, name, io) ==
    LET x == Exchange(r.sock, io, VistAEndMark)
        m == IF x.exc = "socket.error" THEN <<>> ELSE x.msg
        a == [r EXCEPT !.wire = Logged(@, name, x),
                       !.attempts = Append(@, io),
                       !.tried = Append(@, r.sock)]
    IN  IF x.exc = "IndexError"
        THEN [a EXCEPT !.exc = x.exc]
        ELSE [a EXCEPT !.msg = m, !.marked = x.marked,
                       !.done = ~NeedsRecovery(m)]

\* invokeRPC, lines 99-103: resend and return what is read
Resend(r, name, io) ==
    LET x == Exchange(r.sock, io, VistAEndMark)
        a == [r EXCEPT !.wire = Logged(@, name, x),
                       !.attempts = Append(@, io),
                       !.tried = Append(@, r.sock)]
    IN  IF x.exc # "none"
        THEN [a EXCEPT !.exc = x.exc, !.msg = <<>>, !.marked = FALSE]
        ELSE [a EXCEPT !.msg = x.msg, !.marked = x.marked, !.done = TRUE]

\* a recovery that goes on reconnecting while the reply is empty
RecoverAgain(r, name) ==
    LET once == Bind(VistARPCConnection_connect(r),
                     LAMBDA a : {Resend(a, name, io) : io \in Broker})
        again == {[a EXCEPT !.done = ~NeedsRecovery(a.msg)] : a \in once}
    IN  Bind(Bind(again, LAMBDA a : VistARPCConnection_connect(a)),
             LAMBDA a : {Resend(a, name, io) : io \in Broker})

\* invokeRPC, lines 93-103: the recovery path
Recover(r, name) ==
    Bind(VistARPCConnection_connect(r),
         LAMBDA a : {Resend(a, name, io) : io \in Broker})

\* an invokeRPC that goes on to send after its lazy connect() raised
invokeRPCAfterFailedConnect(r, name) ==
    LET connected == IF r.sock = "None"
                     THEN {[a EXCEPT !.exc = "none"] :
                             a \in VistARPCConnection_connect(r)}
                     ELSE {r}
        tried == Bind(connected,
                      LAMBDA a : {FirstAttempt(a, name, io) : io \in Broker})
    IN  Bind(tried, LAMBDA a : Recover(a, name))

\* an invokeRPC that connects before every request
invokeRPCEager(r, name) ==
    LET tried == Bind(VistARPCConnection_connect(r),
                      LAMBDA a : {FirstAttempt(a, name, io) : io \in Broker})
    IN  Bind(tried, LAMBDA a : Recover(a, name))

\* RPCConnection.invokeRPC
invokeRPC(r, name) ==
    LET connected == IF r.sock = "None"
                     THEN VistARPCConnection_connect(r)
                     ELSE {r}
        tried == Bind(connected,
                      LAMBDA a : {FirstAttempt(a, name, io) : io \in Broker})
    IN  Bind(tried, LAMBDA a : Recover(a, name))

\* RPCConnection.close: if self.sock: send "#BYE#", close the socket
close(r) ==
    IF r.sock = "None" THEN {r}
    ELSE IF r.sock # "open" THEN {[r EXCEPT !.exc = "socket.error"]}
    ELSE {[r EXCEPT !.exc = "socket.error"],
          [r EXCEPT !.wire = Append(@, BYE), !.sock = "closed",
                    !.live = @ - 1, !.ready = FALSE]}

\* The runs of each call from each state of a connection, computed once.
SockStates == {"None", "fresh", "open", "closed"}

InvokeRuns ==
    [s \in SockStates, rd \in BOOLEAN, name \in RpcNames |->
        invokeRPC(NewRun(s, rd), name)]

ConnectRuns ==
    [s \in SockStates, rd \in BOOLEAN |->
        VistARPCConnection_connect(NewRun(s, rd))]

\* what a run leaves behind for the pool: the connection's fields and
\* whether the call raised
Effects(S) ==
    {[sock |-> r.sock, ready |-> r.ready, raised |-> r.exc # "none"] : r \in S}

\* for any name the calling thread passes
InvokeEffects ==
    [s \in SockStates, rd \in BOOLEAN |->
        Effects(UNION {InvokeRuns[s, rd, name] : name \in RpcNames})]

ConnectEffects ==
    [s \in SockStates, rd \in BOOLEAN |-> Effects(ConnectRuns[s, rd])]

\* -------------------------------------------- a client of one connection
\* the connection the direct client owns
Mine == 1

NoCall == [op |-> "none", rpc |-> "", r |-> NewRun("None", FALSE)]

Finish(opName, name, r) ==
    /\ call' = [op |-> opName, rpc |-> name, r |-> r]
    /\ sock' = [sock EXCEPT ![Mine] = r.sock]
    /\ ready' = [ready EXCEPT ![Mine] = r.ready]
    /\ UNCHANGED <<connectionQueue, pc, connection, connections, number,
                   sequence, uid>>

Client_invokeRPC ==
    \E name \in RpcNames :
      \E r \in InvokeRuns[sock[Mine], ready[Mine], name] :
        Finish("invokeRPC", name, r)

Client_connect ==
    \E r \in ConnectRuns[sock[Mine], ready[Mine]] :
        Finish("connect", "", r)

Client_close ==
    \E r \in close(NewRun(sock[Mine], ready[Mine])) :
        Finish("close", "", r)

\* -------------------------------------------------- RPCConnectionPool
\* queue.LifoQueue: put appends, get blocks while the queue is empty and
\* then removes and returns the item put last
LifoPut(q, item) == Append(q, item)
\* a get that waits while fewer than two items are queued
LifoCanGetSecond(q) == Len(q) > 1
LifoCanGet(q) == Len(q) > 0
LifoItem(q) == Last(q)
\* a get that leaves the item in the queue
LifoPeek(q) == q
LifoAfterGet(q) == Front(q)

\* a constructor that puts one and the same connection poolSize times
prebuildOneConnection(poolSize) == [k \in 1..poolSize |-> 1]

\* __prebuildConnections: for i in range(poolSize, 0, -1): put(connection i)
prebuildConnections(poolSize) == [k \in 1..poolSize |-> poolSize + 1 - k]

\* invokeRPC is called and reaches self.__connectionQueue.get()
Pool_invokeRPC_Call(c) ==
    /\ pc[c] = "idle"
    /\ pc' = [pc EXCEPT ![c] = "pool_get"]
    /\ UNCHANGED <<connectionQueue, sock, ready, connection, connections,
                   number, call, sequence, uid>>

\* connection = self.__connectionQueue.get()
Pool_invokeRPC_Get(c) ==
    /\ pc[c] = "pool_get"
    /\ LifoCanGet(connectionQueue)
    /\ connection' = [connection EXCEPT ![c] = LifoItem(connectionQueue)]
    /\ connectionQueue' = LifoAfterGet(connectionQueue)
    /\ pc' = [pc EXCEPT ![c] = "pool_invoke"]
    /\ UNCHANGED <<sock, ready, connections, number, call, sequence, uid>>

\* reply = connection.invokeRPC(name, params) returns;
\* self.__connectionQueue.put(connection); return reply
Pool_invokeRPC_Return(c) ==
    /\ pc[c] = "pool_invoke"
    /\ LET t == connection[c] IN
       \E r \in InvokeEffects[sock[t], ready[t]] :
         /\ ~r.raised
         /\ sock' = [sock EXCEPT ![t] = r.sock]
         /\ ready' = [ready EXCEPT ![t] = r.ready]
         /\ connectionQueue' = LifoPut(connectionQueue, t)
    /\ connection' = [connection EXCEPT ![c] = 0]
    /\ pc' = [pc EXCEPT ![c] = "idle"]
    /\ UNCHANGED <<connections, number, call, sequence, uid>>

\* the store when invokeRPC leaves through its except clause
StoreAfterExcept(q, item) == q

\* connection.invokeRPC(name, params) raises;
\* except Exception as e: logError(...); raise e
Pool_invokeRPC_Except(c) ==
    /\ pc[c] = "pool_invoke"
    /\ LET t == connection[c] IN
       \E r \in InvokeEffects[sock[t], ready[t]] :
         /\ r.raised
         /\ sock' = [sock EXCEPT ![t] = r.sock]
         /\ ready' = [ready EXCEPT ![t] = r.ready]
         /\ connectionQueue' = StoreAfterExcept(connectionQueue, t)
    /\ connection' = [connection EXCEPT ![c] = 0]
    /\ pc' = [pc EXCEPT ![c] = "idle"]
    /\ UNCHANGED <<connections, number, call, sequence, uid>>

\* a preconnect that takes its argument as it is
Unclamped(k, poolSize) == k

\* preconnect, lines 369-370: if number > self.poolSize: number = self.poolSize
ClampNumber(k, poolSize) == IF k > poolSize THEN poolSize ELSE k

\* preconnect, lines 369-371: clamp number, connections = []
Pool_preconnect_Call(c) ==
    /\ pc[c] = "idle"
    /\ \E k \in 1..(PoolSize + 1) :
         number' = [number EXCEPT ![c] = ClampNumber(k, PoolSize)]
    /\ connections' = [connections EXCEPT ![c] = <<>>]
    /\ pc' = [pc EXCEPT ![c] = "pre_get"]
    /\ UNCHANGED <<connectionQueue, sock, ready, connection, call, sequence, uid>>

\* preconnect, line 373: connection = self.__connectionQueue.get()
Pool_preconnect_Get(c) ==
    /\ pc[c] = "pre_get"
    /\ LifoCanGet(connectionQueue)
    /\ connection' = [connection EXCEPT ![c] = LifoItem(connectionQueue)]
    /\ connectionQueue' = LifoAfterGet(connectionQueue)
    /\ pc' = [pc EXCEPT ![c] = "pre_connect"]
    /\ UNCHANGED <<sock, ready, connections, number, call, sequence, uid>>

\* preconnect, lines 374-375: connection.connect() returns;
\* connections.append(connection); next iteration or the second loop
Pool_preconnect_Connect(c) ==
    /\ pc[c] = "pre_connect"
    /\ LET t == connection[c] IN
       \E r \in ConnectEffects[sock[t], ready[t]] :
         /\ ~r.raised
         /\ sock' = [sock EXCEPT ![t] = r.sock]
         /\ ready' = [ready EXCEPT ![t] = r.ready]
    /\ connections' = [connections EXCEPT ![c] = Append(@, connection[c])]
    /\ connection' = [connection EXCEPT ![c] = 0]
    /\ pc' = [pc EXCEPT ![c] =
                IF Len(connections[c]) + 1 < number[c] THEN "pre_get" ELSE "pre_put"]
    /\ UNCHANGED <<connectionQueue, number, call, sequence, uid>>

\* preconnect, line 374: connection.connect() raises; the exception leaves
\* preconnect and its locals are dropped
Pool_preconnect_Raise(c) ==
    /\ pc[c] = "pre_connect"
    /\ LET t == connection[c] IN
       \E r \in ConnectEffects[sock[t], ready[t]] :
         /\ r.raised
         /\ sock' = [sock EXCEPT ![t] = r.sock]
         /\ ready' = [ready EXCEPT ![t] = r.ready]
    /\ connections' = [connections EXCEPT ![c] = <<>>]
    /\ connection' = [connection EXCEPT ![c] = 0]
    /\ number' = [number EXCEPT ![c] = 0]
    /\ pc' = [pc EXCEPT ![c] = "idle"]
    /\ UNCHANGED <<connectionQueue, call, sequence, uid>>

\* preconnect, lines 376-377: self.__connectionQueue.put(connections[i])
Pool_preconnect_Put(c) ==
    /\ pc[c] = "pre_put"
    /\ connectionQueue' = LifoPut(connectionQueue, Head(connections[c]))
    /\ connections' = [connections EXCEPT ![c] = Tail(@)]
    /\ IF Len(connections[c]) = 1
       THEN /\ pc' = [pc EXCEPT ![c] = "idle"]
            /\ number' = [number EXCEPT ![c] = 0]
       ELSE UNCHANGED <<pc, number>>
    /\ UNCHANGED <<sock, ready, connection, call, sequence, uid>>

\* the connections a thread has taken from the store and not put back
Held(c) ==
    (IF connection[c] = 0 THEN {} ELSE {connection[c]}) \cup Range(connections[c])

TypeOK ==
    /\ sock \in [Conns -> {"None", "fresh", "open", "closed"}]
    /\ ready \in [Conns -> BOOLEAN]
    /\ connection \in [Callers -> Conns \cup {0}]
    /\ number \in [Callers -> 0..PoolSize]
    /\ \A i \in 1..Len(connectionQueue) : connectionQueue[i] \in Conns

InitConnections ==
    /\ sock = [t \in Conns |-> "None"]
    /\ ready = [t \in Conns |-> FALSE]
    /\ connections = [c \in Callers |-> <<>>]
    /\ number = [c \in Callers |-> 0]
    /\ connection = [c \in Callers |-> 0]
    /\ call = NoCall
    /\ sequence = 0
    /\ uid = <<>>

\* a VistARPCConnection constructed outside any pool, as in main()
InitT ==
    /\ InitConnections
    /\ connectionQueue = <<>>
    /\ pc = [c \in Callers |-> "off"]

NextT ==
    \/ Client_invokeRPC
    \/ Client_connect
    \/ Client_close

SpecT == InitT /\ [][NextT]_vars

\* RPCConnectionPool.__init__: the store holds the prebuilt connections
Init ==
    /\ InitConnections
    /\ connectionQueue = prebuildConnections(PoolSize)
    /\ pc = [c \in Callers |-> "idle"]

Next ==
    \E c \in Callers :
        \/ Pool_invokeRPC_Call(c)
        \/ Pool_invokeRPC_Get(c)
        \/ Pool_invokeRPC_Return(c)
        \/ Pool_invokeRPC_Except(c)
        \/ Pool_preconnect_Call(c)
        \/ Pool_preconnect_Get(c)
        \/ Pool_preconnect_Connect(c)
        \/ Pool_preconnect_Raise(c)
        \/ Pool_preconnect_Put(c)

Spec == Init /\ [][Next]_vars

\* threads that only call invokeRPC, fairly scheduled: a thread inside
\* connection.invokeRPC eventually leaves it, and a thread waiting in get()
\* is not passed over for ever while items keep arriving
NextInvoke ==
    \E c \in Callers :
        \/ Pool_invokeRPC_Call(c)
        \/ Pool_invokeRPC_Get(c)
        \/ Pool_invokeRPC_Return(c)
        \/ Pool_invokeRPC_Except(c)

LiveSpec ==
    /\ Init
    /\ [][NextInvoke]_vars
    /\ \A c \in Callers :
         /\ WF_vars(Pool_invokeRPC_Return(c) \/ Pool_invokeRPC_Except(c))
         /\ SF_vars(Pool_invokeRPC_Get(c))

\* threads that call invokeRPC and preconnect on a pool whose transports
\* never fail: every connect() and every transport invokeRPC returns.
\* Fairly scheduled: a thread that can run a step of its call eventually
\* runs it, and a thread waiting in get() is not passed over for ever
\* while items keep arriving.
NextSucceeding ==
    \E c \in Callers :
        \/ Pool_invokeRPC_Call(c)
        \/ Pool_invokeRPC_Get(c)
        \/ Pool_invokeRPC_Return(c)
        \/ Pool_preconnect_Call(c)
        \/ Pool_preconnect_Get(c)
        \/ Pool_preconnect_Connect(c)
        \/ Pool_preconnect_Put(c)

SpecSucceeding ==
    /\ Init
    /\ [][NextSucceeding]_vars
    /\ \A c \in Callers :
         /\ WF_vars(Pool_invokeRPC_Return(c))
         /\ WF_vars(Pool_preconnect_Connect(c))
         /\ WF_vars(Pool_preconnect_Put(c))
         /\ SF_vars(Pool_invokeRPC_Get(c))
         /\ SF_vars(Pool_preconnect_Get(c))

\* One caller that makes its pool calls one after the other: with no other
\* thread, RPCConnectionPool.invokeRPC runs from get() to its put() or its
\* raise without interleaving.  The call blocks for ever in get() when the
\* store is empty.
Sequential_invokeRPC ==
    /\ LifoCanGet(connectionQueue)
    /\ LET t == LifoItem(connectionQueue) IN
       \E name \in RpcNames :
         \E r \in InvokeRuns[sock[t], ready[t], name] :
           /\ call' = [op |-> "pool.invokeRPC", rpc |-> name, r |-> r,
                       poolId |-> t]
           /\ sock' = [sock EXCEPT ![t] = r.sock]
           /\ ready' = [ready EXCEPT ![t] = r.ready]
           /\ connectionQueue' =
                IF r.exc = "none"
                THEN LifoPut(LifoAfterGet(connectionQueue), t)
                ELSE StoreAfterExcept(LifoAfterGet(connectionQueue), t)
    /\ UNCHANGED <<pc, connection, connections, number, sequence, uid>>

InitSequential ==
    /\ InitConnections
    /\ connectionQueue = prebuildConnections(PoolSize)
    /\ pc = [c \in Callers |-> "off"]

NextSequential == Sequential_invokeRPC

SpecSequential == InitSequential /\ [][NextSequential]_vars

\* ------------------------------------------------------- characters, again
\* the printable characters, chr(32) .. chr(126), in code order; BACKQUOTE
\* is chr(96)
Ascii ==
    <<" ", "!", "\"", "#", "$", "%", "&", "'", "(", ")", "*", "+", ",",
      "-", ".", "/", "0", "1", "2", "3", "4", "5", "6", "7", "8", "9", ":",
      ";", "<", "=", ">", "?", "@", "A", "B", "C", "D", "E", "F", "G", "H",
      "I", "J", "K", "L", "M", "N", "O", "P", "Q", "R", "S", "T", "U", "V",
      "W", "X", "Y", "Z", "[", "\\", "]", "^", "_", "BACKQUOTE", "a", "b",
      "c", "d", "e", "f", "g", "h", "i", "j", "k", "l", "m", "n", "o", "p",
      "q", "r", "s", "t", "u", "v", "w", "x", "y", "z", "{", "|", "}", "~">>

\* the control characters chr(1) .. chr(31)
Control ==
    <<"SOH", "STX", "ETX", EOT, "ENQ", "ACK", "BEL", "BS", "HT", "LF", "VT",
      "FF", "CR", "SO", "SI", "DLE", "DC1", "DC2", "DC3", "DC4", "NAK", "SYN",
      "ETB", "CAN", "EM", "SUB", "ESC", "FS", "GS", "RS", "US">>

\* chr(n) and ord(c) for 0 <= n <= 126
Chr(n) ==
    IF n = 0 THEN NUL
    ELSE IF n <= Len(Control) THEN Control[n]
    ELSE Ascii[n - Len(Control)]

Ord(c) == CHOOSE n \in 0..(Len(Control) + Len(Ascii)) : Chr(n) = c

\* RPCConnection.CIPHER of patient_dfn_lookup; row k of the source is CIPHER[k + 1]
CIPHER ==
    <<
      <<"w", "k", "E", "o", "-", "Z", "J", "t", "!", "d", "G", ")", "4",
        "9", "K", "{", "n", "X", "1", "B", "S", "$", "v", "H", "<", "&",
        ":", "M", "y", "f", "*", ">", "A", "e", "0", "j", "Q", "W", "=",
        ";", "|", "#", "P", "s", "O", "BACKQUOTE", "'", "%", "+", "r", "m",
        "b", "[", "g", "p", "q", "N", ",", "l", "6", "/", "h", "F", "C",
        "@", "D", "c", "U", "a", " ", "]", "z", "~", "R", "}", "\"", "V",
        "\\", "i", "I", "x", "u", "?", "8", "7", "2", ".", "(", "T", "Y",
        "L", "5", "_", "3">>,
      <<"r", "K", "v", "BACKQUOTE", "R", ";", "M", "/", "9", "B", "q", "A",
        "F", "%", "&", "t", "S", "s", "#", "V", "h", ")", "d", "O", "1",
        "D", "Z", "P", ">", " ", "*", "f", "X", "'", "u", "[", ".", "4",
        "l", "Y", "=", "-", "m", "g", "_", "c", "i", "8", "0", "2", "N",
        "7", "L", "T", "G", "<", "]", "!", "C", "W", "o", ":", "3", "?",
        "{", "+", ",", "5", "Q", "}", "(", "@", "j", "a", "E", "x", "n",
        "$", "~", "p", "\\", "I", "y", "H", "w", "z", "U", "\"", "|", "k",
        "6", "J", "e", "b">>,
      <<"\\", "p", "V", "(", "Z", "J", "k", "\"", "W", "Q", "m", "C", "n",
        "!", "Y", ",", "y", "@", "1", "d", "+", "~", "8", "s", "?", "[",
        "l", "N", "M", "x", "g", "H", "E", "t", "=", "u", "w", "|", "X",
        ":", "q", "S", "L", "j", "A", "I", "*", "}", "6", "z", "o", "F",
        "{", "T", "3", "#", ";", "c", "a", ")", "/", "h", "5", "%",
        "BACKQUOTE", "P", "4", "$", "r", "]", "G", "'", "9", "e", "2", "i",
        "f", "_", ">", "U", "D", "K", "b", "7", "<", "v", "0", "&", "-",
        " ", "R", "B", "O", ".">>,
      <<"d", "e", "p", "j", "t", "3", "g", "4", "W", ")", "q", "D", "0",
        "V", "~", "N", "J", "a", "r", "\\", "B", " ", "\"", "?", "O", "Y",
        "h", "c", "u", "[", "<", "M", "s", "%", "Z", "BACKQUOTE", "R", "I",
        "L", "_", "6", ":", "]", "A", "X", "-", "z", "G", ".", "#", "}",
        "$", "@", "v", "k", "7", "/", "5", "x", "&", "*", "m", ";", "(",
        "y", "b", "2", "F", "n", "+", "l", "'", "P", "w", "U", "o", "f",
        "1", "K", "{", "9", ",", "|", "E", "Q", "i", ">", "H", "=", "C",
        "T", "8", "S", "!">>,
      <<"N", "Z", "W", ":", "1", "}", "K", "$", "b", "y", "P", ";", "j",
        "k", ")", "7", "'", "BACKQUOTE", "x", "9", "0", "B", "|", "c", "q",
        "@", "i", "S", "s", "E", "n", "u", ",", "(", "l", "-", "h", "f",
        ".", "&", "Y", "_", "?", "J", "#", "R", "]", "+", "v", "o", "Q",
        "X", "U", "8", "m", "r", "V", "[", "!", "p", "4", "t", "g", "~",
        "O", "M", "e", "z", " ", "C", "A", "a", "G", "F", "D", "6", "H",
        "5", "3", "%", "L", "/", "d", "T", "2", "<", "*", ">", "\"", "{",
        "\\", "w", "I", "=">>,
      <<"v", "C", "i", "J", "<", "o", "Z", "9", "|", "p", "h", "X", "V",
        "N", "n", ")", "m", " ", "K", "BACKQUOTE", "t", "/", "S", "I", "%",
        "]", "A", "5", "q", "O", "W", "e", "\\", "&", "?", ";", "j", "T",
        "~", "M", "!", "f", "z", "1", "l", ">", "[", "D", "_", "0", "x",
        "R", "3", "2", "c", "*", "4", ".", "P", "\"", "G", "{", "r", "7",
        "}", "E", "8", "w", "U", "g", "y", "u", "d", "F", "+", "6", "-",
        ":", "B", "=", "$", "(", "s", "Y", ",", "L", "k", "b", "H", "a",
        "#", "'", "@", "Q">>,
      <<"h", "v", "M", "X", ",", "'", "4", "T", "y", ";", "[", "a", "8",
        "/", "{", "6", "l", "~", "F", "_", "V", "\"", "}", "q", "L", "I",
        "\\", "!", "@", "x", "(", "D", "7", "b", "R", "m", "U", "H", "]",
        "W", "1", "5", "J", "%", "N", "0", "B", "Y", "P", "k", "r", "s",
        "&", "9", ":", "$", ")", "Z", "j", ">", "u", "|", "z", "w", "Q",
        "=", "i", "e", "C", "-", "o", "G", "A", ".", "#", "?", "t", "f",
        "d", "c", "O", "3", "g", "p", "BACKQUOTE", "S", "+", "E", "n", " ",
        "K", "2", "*", "<">>,
      <<"j", "d", "!", "W", "5", "[", "]", ";", "4", "'", "<", "C", "$",
        "/", "&", "x", "|", "r", "Z", "(", "k", "{", ">", "?", "g", "h",
        "B", "z", "I", "F", "N", "}", "f", "A", "K", "\"", "#",
        "BACKQUOTE", "p", "_", "T", "q", "t", "D", "*", "1", "E", "3", "7",
        "X", "G", "V", "s", "@", "0", "n", "m", "S", "e", "+", "Y", "6",
        "Q", "y", "o", "-", "a", "U", "u", "%", "i", "8", "c", "=", "H",
        "2", "v", "J", "\\", ")", " ", "R", ":", "M", "L", "b", ".", "9",
        ",", "w", "l", "O", "~", "P">>,
      <<"2", "T", "h", "t", "j", "E", "M", "+", "!", "=", "x", "X", "b",
        ")", "7", ",", "Z", "V", "{", "*", "c", "i", "3", "\"", "8", "@",
        "_", "l", "-", "H", "S", "6", "9", "L", ">", "]", "\\", "A", "U",
        "F", "/", "Q", "%", ":", "q", "D", "?", "1", "~", "m", "(", "y",
        "v", "O", "0", "e", "'", "<", "#", "o", "$", "p", "4", "d", "n",
        "I", "z", "K", "P", "|", "BACKQUOTE", "N", "r", "k", "a", "G", "g",
        ".", "u", "f", "C", "R", "B", "[", ";", " ", "s", "J", "Y", "w",
        "W", "}", "5", "&">>,
      <<"v", "B", "\\", "5", "/", "z", "l", "-", "9", "y", ":", "P", "j",
        "|", "=", "(", "R", "'", "7", "Q", "J", "I", " ", "*", "&", "C",
        "T", "X", "\"", "p", "0", "]", "_", "3", ".", "i", "d", "c", "u",
        "O", "e", "f", "V", "U", "#", "o", "m", "w", "N", "Z", "BACKQUOTE",
        "$", "F", "s", "?", "L", "+", "1", "S", "k", "<", ",", "b", ")",
        "h", "M", "4", "A", "6", "[", "Y", "%", "a", "D", "r", "g", "@",
        "~", "K", "q", "E", "W", "8", "t", ">", "H", "}", ";", "n", "!",
        "2", "x", "G", "{">>,
      <<"s", "F", "z", "0", "B", "o", "@", "_", "H", "f", "n", "K", ">",
        "L", "R", "}", "q", "W", "X", "V", "+", "D", "6", "BACKQUOTE", "Y",
        "2", "8", "=", "4", "C", "m", "~", "G", "/", "7", "-", "5", "A",
        "\\", "b", "9", "!", "a", "#", "r", "P", ".", "l", "&", "M", "$",
        "h", "c", "3", "i", "j", "Q", "k", ";", ")", ",", "T", "v", "U",
        "d", "<", "[", ":", "I", "\"", "u", "1", "'", "N", "Z", "S", "O",
        "w", "]", "*", "g", "x", "t", "E", "{", "e", "J", "p", "|", "y",
        " ", "(", "?", "%">>,
      <<"M", "@", ",", "D", "}", "|", "L", "J", "y", "G", "O", "8",
        "BACKQUOTE", "$", "*", "Z", "q", "H", " ", ".", "j", ">", "c", "~",
        "h", "<", "d", "=", "f", "i", "m", "s", "z", "v", "[", "#", "-",
        "5", "3", "F", "!", "+", "a", ";", "N", "C", "'", "6", "T", "9",
        "1", "I", "V", "?", "(", "0", "x", "&", "/", "{", "B", ")", "w",
        "\"", "]", "Q", "\\", "Y", "U", "W", "p", "r", "k", "4", ":", "o",
        "l", "%", "g", "2", "n", "E", "7", "t", "e", "R", "K", "b", "A",
        "P", "u", "S", "_", "X">>,
      <<".", "m", "j", "Y", "#", "_", "0", "*", "H", "<", "B", "=", "Q",
        "+", "F", "M", "L", "6", "]", "s", ";", "r", "2", ":", "e", "8",
        "R", "}", "[", "i", "c", "&", "K", "A", " ", "1", "w", "{", ")",
        "v", "V", "5", "d", ",", "$", "u", "\"", "~", "x", "D", "/", "P",
        "g", "?", "I", "y", "f", "t", "h", "O", "@", "C", "z", "W", "p",
        "%", "!", "BACKQUOTE", "N", "4", "Z", "'", "3", "-", "(", "o", "|",
        "J", "9", "X", "U", "E", "7", "k", "\\", "T", "l", "q", "S", "b",
        ">", "a", "n", "G">>,
      <<"x", "V", "a", "1", "'", "]", "_", "G", "U", "<", "X", "BACKQUOTE",
        "|", "\\", "N", "g", "M", "?", "L", "S", "9", "{", "\"", "j", "T",
        "%", "s", "$", "}", "y", "[", "n", "v", "t", "l", "e", "f", "B",
        "2", "R", "K", "J", "W", "~", "(", "/", "c", "I", "D", "C", "P",
        "o", "w", "4", ",", ">", "#", "z", "m", "+", ":", "5", "b", "@",
        "0", "6", "O", "3", "A", "p", "8", "=", "*", "7", "Z", "F", "Y",
        "!", "H", "-", "u", "E", "Q", "k", ";", " ", ".", "q", ")", "i",
        "&", "r", "h", "d">>,
      <<"I", "]", "J", "z", "7", "A", "G", "@", "Q", "X", ".", "\"", "%",
        "3", "L", "q", ">", "M", "E", "T", "U", "o", "{", "P", "p", "_",
        " ", "|", "a", "6", "<", "0", "d", "Y", "V", "S", "v", "8", ":",
        "b", ")", "~", "W", "9", "N", "K", "BACKQUOTE", "(", "r", "'", "4",
        "f", "s", "&", "w", "i", "m", "\\", "k", "R", "e", "C", "2", "h",
        "g", "=", "H", "O", "j", "$", "1", "B", "*", "/", "n", "x", "t",
        ",", ";", "c", "#", "y", "+", "!", "[", "?", "l", "F", "u", "Z",
        "-", "5", "D", "}">>,
      <<"R", "r", "(", "G", "e", "6", "F", " ", "H", "x", ">", "q", "$",
        "m", "&", "C", "%", "M", "~", "T", "n", ",", ":", "\"", "o", "'",
        "t", "X", "/", "*", "y", "P", ".", "{", "l", "Z", "!", "Y", "k",
        "i", "V", "h", "u", "w", "_", "<", "K", "E", "5", "a", "[", ";",
        "}", "W", "0", "g", "j", "s", "z", "3", "]", "@", "7", "c", "I",
        "2", "\\", "Q", "N", "?", "f", "#", "4", "p", "|", "v", "b", "1",
        "O", "U", "B", "D", "9", ")", "=", "-", "L", "J", "A", "+", "d",
        "BACKQUOTE", "S", "8">>,
      <<"I", "~", "k", ">", "y", "|", "m", "}", ";", "d", ")", "-", "7",
        "D", "Z", "\"", "F", "e", "/", "Y", "<", "B", ":", "x", "w", "o",
        "j", "R", ",", "V", "h", "]", "O", "0", "S", "c", "[", "BACKQUOTE",
        "$", "s", "g", "8", "G", "X", "E", "!", "1", "&", "Q", "r", "z",
        "p", ".", "_", "W", "%", "T", "N", "K", "(", "=", "J", " ", "3",
        "i", "*", "2", "a", "b", "u", "H", "A", "4", "C", "'", "?", "M",
        "v", "\\", "P", "q", "{", "n", "#", "5", "6", "L", "f", "t", "U",
        "l", "@", "9", "+">>,
      <<"~", "A", "*", ">", "9", " ", "W", "i", "d", "F", "N", ",", "1",
        "K", "s", "m", "w", "Q", ")", "G", "J", "M", "{", "I", "4", ":",
        "C", "%", "}", "#", "E", "p", "(", "?", "H", "B", "/", "r", ";",
        "t", ".", "&", "U", "8", "o", "|", "l", "[", "'", "L", "g", "\"",
        "2", "h", "R", "D", "y", "Z", "5", "BACKQUOTE", "n", "b", "f", "]",
        "q", "j", "c", "0", "!", "z", "S", "-", "T", "k", "Y", "O", "<",
        "_", "=", "7", "6", "a", "\\", "X", "@", "$", "P", "e", "3", "+",
        "x", "V", "v", "u">>,
      <<"y", "Y", "g", "j", "f", "\"", "5", "V", "d", "H", "c", "#", "u",
        "A", ",", "W", "1", "i", "+", "v", "'", "6", "|", "@", "p", "r",
        "{", "n", ";", "D", "J", "!", "8", "(", "b", "t", "P", "G", "a",
        "Q", "M", ".", "L", "T", "3", "o", "e", "?", "N", "B", "/", "&",
        "9", ">", "Z", "BACKQUOTE", "-", "}", "0", "2", "*", "%", "x", "<",
        "7", "l", "s", "q", "z", "4", "O", "S", " ", "~", "E", "$", "\\",
        "R", "]", "K", "I", "[", ":", "U", "w", "C", "_", "=", "h", ")",
        "k", "X", "m", "F">>,
      <<"5", ":", "i", "a", "r", ".", "{", "Y", "U", "7", "m", "B", "Z",
        "R", "@", "-", "K", "|", "2", " ", "\"", "+", "~", "BACKQUOTE",
        "M", "%", "8", "s", "q", "4", "J", "h", "P", "o", "<", "_", "X",
        "\\", "S", "g", "3", "W", "C", ";", "T", "u", "x", "z", ",", "f",
        "v", "E", "Q", "1", "p", "9", "=", "w", "}", "F", "A", "I", "&",
        "j", "/", "k", "e", "D", "0", "c", "?", ")", "L", "N", "6", "O",
        "H", "V", "]", "l", "G", "y", "'", "$", "*", ">", "n", "d", "[",
        "(", "t", "b", "!", "#">>
    >>

\* RPCConnection.CIPHER of lightweight_python_client: one placeholder row
PlaceholderCIPHER ==
    <<
      <<"*", "*", "*", "*", "*", "*", "*", "*", "*", "*", "*", "*", "*",
        "*", "*", " ", " ", "P", "l", "a", "c", "e", " ", "t", "h", "e",
        " ", "d", "e", "c", "r", "y", "p", "t", "i", "o", "n", " ", "c",
        "o", "d", "e", " ", "h", "e", "r", "e", " ", " ", "*", "*", "*",
        "*", "*", "*", "*", "*", "*", "*", "*", "*", "*", "*", "*", "*",
        "*", "*", "*", "*", "*", "*", "*">>
    >>

\* --------------------------------------------- VistARPCConnection.makeRequest
\* bounds of the requests built
MaxParams == 2
LongLen == 1000

\* str(n) for n >= 0, and str(n).zfill(3)
RECURSIVE Str(_)
Str(n) ==
    IF n < 10 THEN <<Chr(Ord("0") + n)>>
    ELSE Append(Str(n \div 10), Chr(Ord("0") + (n % 10)))

Zfill3(digits) ==
    IF Len(digits) >= 3 THEN digits
    ELSE [i \in 1..(3 - Len(digits)) |-> "0"] \o digits

\* a length prefix that keeps the last three digits
LPackLast3(text) ==
    LET d == Zfill3(Str(Len(text))) IN SubSeq(d, Len(d) - 2, Len(d)) \o text

\* str(len(x)).zfill(3) + str(x)
LPack(text) == Zfill3(Str(Len(text))) \o text

\* a parameter: a scalar (a str) or a keyed collection (a dict, its items
\* in insertion order)
Scalar(text) == [kind |-> "scalar", val |-> text]
Dict(items) == [kind |-> "dict", items |-> items]

\* lines 246-255: the key/value pairs of a dict parameter, "t" between them
RECURSIVE DictSpecs(_, _)
DictSpecs(items, paramIndex) ==
    IF items = <<>> THEN <<>>
    ELSE (IF paramIndex > 1 THEN <<"t">> ELSE <<>>)
         \o LPack(Head(items)[1]) \o LPack(Head(items)[2])
         \o DictSpecs(Tail(items), paramIndex + 1)

\* lines 235-255: one parameter
ParamSpec(param) ==
    IF param.kind # "dict"
    THEN <<"0">> \o LPack(param.val) \o <<"f">>
    ELSE <<"2">> \o DictSpecs(param.items, 1) \o <<"f">>

RECURSIVE ParamsSpecs(_)
ParamsSpecs(params) ==
    IF params = <<>> THEN <<>>
    ELSE ParamSpec(Head(params)) \o ParamsSpecs(Tail(params))

\* VistARPCConnection.makeRequest
makeRequest(name, params, isCommand) ==
    LET protocoltoken == <<"[", "X", "W", "B", "]", "1", "1", "3", "0">>
        commandtoken == IF isCommand THEN <<"4">> ELSE <<"2", Chr(1), "1">>
        namespec == <<Chr(Len(name))>> \o name
        paramsspecs == <<"5">> \o (IF Len(params) = 0 THEN <<"4", "f">>
                                   ELSE ParamsSpecs(params))
        endtoken == <<Chr(4)>>
    IN  protocoltoken \o commandtoken \o namespec \o paramsspecs \o endtoken

\* --------------------------------------------- CIARPCConnection.__byteIt
\* bound of the field lengths tried, besides the boundary lengths
MaxFieldLen == 20

\* bytes of slen >> 4, least significant first (lines 320-325)
RECURSIVE LengthBytes(_)
LengthBytes(slen) ==
    IF slen = 0 THEN <<>>
    ELSE <<slen % 256>> \o LengthBytes(slen \div 256)

Reversed(s) == [i \in 1..Len(s) |-> s[Len(s) + 1 - i]]

\* a header whose extra length bytes stay least significant first
HeaderNotReversed(slen) ==
    LET bytes == LengthBytes(slen \div 16)
    IN  <<Len(bytes) * 16 + (slen % 16)>> \o bytes

\* lines 317-329: fbytes before the value is appended
LengthHeader(slen) ==
    LET low == slen % 16
        bytes == LengthBytes(slen \div 16)
        highCount == Len(bytes)
    IN  <<highCount * 16 + low>> \o Reversed(bytes)

\* CIARPCConnection.__byteIt: strVal is a str (its val is characters) or a
\* bytes object (its val is byte values); bytearray(strVal) of line 330
\* raises TypeError for a str
byteIt(strVal) ==
    IF strVal.type = "str"
    THEN [exc |-> "TypeError", fbytes |-> <<>>]
    ELSE [exc |-> "none", fbytes |-> LengthHeader(Len(strVal.val)) \o strVal.val]

\* ------------------------------------------------- RPCConnection.encrypt
\* bound of the plaintexts encrypted
MaxPlain == 2
\* randint(0, 18)
RandMax == 18

\* str.find: the first position of c in row counted from 0, or -1
Find(row, c) ==
    IF \E i \in 1..Len(row) : row[i] = c
    THEN (CHOOSE i \in 1..Len(row) :
             row[i] = c /\ \A j \in 1..(i - 1) : row[j] # c) - 1
    ELSE -1

\* a substitution that reads the plaintext's own row
SubstituteSameRow(cra, crb, c) ==
    LET index == Find(cra, c) IN IF index = -1 THEN c ELSE cra[index + 1]

\* lines 123-128: the character appended for the plaintext character c
Substitute(cra, crb, c) ==
    LET index == Find(cra, c) IN IF index = -1 THEN c ELSE crb[index + 1]

\* lines 115-118: the pairs ra, rb the loop can end with
RowPairs ==
    {<<ra, rb>> \in (0..RandMax) \X (0..RandMax) : ~(rb = ra \/ rb = 0)}

\* cval.encode("utf-8"): every character here is below chr(128), one byte each
Encode(text) == [i \in 1..Len(text) |-> Ord(text[i])]

\* an encrypt that writes the two row selectors in the other order
encryptSelectorsSwapped(table, ra, rb, val) ==
    IF ra + 1 > Len(table) \/ rb + 1 > Len(table)
    THEN [exc |-> "IndexError", cval |-> <<>>]
    ELSE LET cra == table[ra + 1]
             crb == table[rb + 1]
         IN  [exc |-> "none",
              cval |-> Encode(<<Chr(rb + 32)>>
                              \o [i \in 1..Len(val) |-> Substitute(cra, crb, val[i])]
                              \o <<Chr(ra + 32)>>)]

\* RPCConnection.encrypt with the rows ra, rb drawn, on the class's table
encrypt(table, ra, rb, val) ==
    IF ra + 1 > Len(table) \/ rb + 1 > Len(table)
    THEN [exc |-> "IndexError", cval |-> <<>>]
    ELSE LET cra == table[ra + 1]
             crb == table[rb + 1]
         IN  [exc |-> "none",
              cval |-> Encode(<<Chr(ra + 32)>>
                              \o [i \in 1..Len(val) |-> Substitute(cra, crb, val[i])]
                              \o <<Chr(rb + 32)>>)]

\* ------------------------------------------------------ CIARPCConnection
\* chr(255) in a reply: the endMark CIARPCConnection.__init__ passes
EOD == "EOD"
CIAEndMark == EOD
\* "\r", on which connect splits the authentication reply
CR == Chr(13)

\* a str and a bytes object
Text(t) == [type |-> "str", val |-> t]
Bytes(b) == [type |-> "bytes", val |-> b]

\* the code points of a str whose characters are below chr(127)
CodePoints(text) == [i \in 1..Len(text) |-> Ord(text[i])]

\* line 304: the value at which self.sequence goes back to 1
SequenceWrap == 256

\* lines 303-305: self.sequence += 1; if self.sequence == 256: self.sequence = 1
NextSequence(n) == IF n + 1 = SequenceWrap THEN 1 ELSE n + 1

\* line 313, one parameter: self.__byteIt(paramId) + chr(0) + ...; when
\* __byteIt returns its bytearray, bytearray + str raises TypeError as well
ParamBytes(paramId, paramValue) ==
    LET id == byteIt(paramId)
    IN  IF id.exc # "none" THEN id
        ELSE [exc |-> "TypeError", fbytes |-> <<>>]

\* lines 311-313: paramsspecs, or the exception the first parameter raises
Paramsspecs(params) ==
    IF params = <<>> THEN [exc |-> "none", fbytes |-> <<>>]
    ELSE ParamBytes(params[1][1], params[1][2])

\* CIARPCConnection.__makeCIARequest with self.sequence = n on entry and
\* params the dict's items in insertion order: the exception raised, the
\* counter afterwards and the request returned, as code points
makeCIARequest(n, rtype, params) ==
    LET headerToken == CodePoints(<<"{", "C", "I", "A", "}">>)
        EODToken == 255
        counter == NextSequence(n)
        brtype == IF rtype = "R" THEN 82 ELSE 67
        paramsspecs == Paramsspecs(params)
    IN  [exc |-> paramsspecs.exc,
         sequence |-> counter,
         request |-> IF paramsspecs.exc # "none" THEN <<>>
                     ELSE headerToken \o <<EODToken, counter, brtype>>
                          \o paramsspecs.fbytes \o <<EODToken>>]

\* self.context of the transports built here
Context == <<"O", "R">>

\* CIARPCConnection.makeRequest with self.uid = u: rpcParams in insertion
\* order, then __makeCIARequest("R", rpcParams)
CIA_makeRequest(n, u, rpcName, params) ==
    makeCIARequest(n, "R",
        << <<Text(<<"C", "T", "X">>), Text(Context)>>,
           <<Text(<<"U", "I", "D">>), Text(u)>>,
           <<Text(<<"V", "E", "R">>), Text(<<"0">>)>>,
           <<Text(<<"R", "P", "C">>), Text(rpcName)>> >>
        \o [i \in 1..Len(params) |-> <<Text(Str(i)), params[i]>>])

\* the dict connect passes to __makeCIARequest("C", ...)
ConnectParams ==
    << <<Text(<<"I", "P">>), Text(<<"N", "O", "T", "V", "A", "L", "I", "D">>)>>,
       <<Text(<<"U", "C", "I">>), Text(<<>>)>>,
       <<Text(<<"D", "B", "G">>), Text(<<"0">>)>>,
       <<Text(<<"L", "P">>), Text(<<"0">>)>>,
       <<Text(<<"V", "E", "R">>),
         Text(<<"1", ".", "6", ".", "5", ".", "2", "6">>)>> >>

\* connectReply.split("\r")
RECURSIVE Split(_, _)
Split(text, sep) ==
    IF \E i \in 1..Len(text) : text[i] = sep
    THEN LET i == CHOOSE k \in 1..Len(text) :
                     text[k] = sep /\ \A j \in 1..(k - 1) : text[j] # sep
         IN  <<SubSeq(text, 1, i - 1)>> \o Split(SubSeq(text, i + 1, Len(text)), sep)
    ELSE <<text>>

DecimalDigits == {"0", "1", "2", "3", "4", "5", "6", "7", "8", "9"}

\* re.match(r'\d+\\^', line): one or more digits, then a backslash, then
\* the position has to be the start of the string
MatchNumberCaret(line) ==
    \E k \in 1..Len(line) :
        /\ \A i \in 1..k : line[i] \in DecimalDigits
        /\ k + 1 <= Len(line) /\ line[k + 1] = "\\"
        /\ k + 1 = 0

\* re.match(r'([^\\^]+)', line).group(1): the longest prefix without a
\* backslash and without "^"
UidOf(line) ==
    LET stops == {i \in 1..Len(line) : line[i] \in {"\\", "^"}}
    IN  IF stops = {} THEN line
        ELSE SubSeq(line, 1, (CHOOSE i \in stops : \A j \in stops : i <= j) - 1)

\* a run of a call on a CIARPCConnection: the run of the base class, the
\* two fields of the subclass, and (history) the requests built so far
NewCIARun(s, rd, n, u) ==
    NewRun(s, rd) @@ [sequence |-> n, uid |-> u, built |-> <<>>]

\* the run after a request was built with outcome q
Build(r, q) ==
    [r EXCEPT !.sequence = q.sequence,
              !.exc = q.exc,
              !.built = IF q.exc = "none" THEN Append(@, q.request) ELSE @]

\* the plaintext of accessVerify: self.access + ";" + self.verify
AccessVerify == <<"A", ";", "A">>
\* socket.gethostname()
ComputerName == <<"p", "c">>

\* the parameters of the CIANBRPC AUTH request, with the rows encrypt drew
AuthParams(rows) ==
    <<Text(<<"C", "I", "A", "V", " ", "V", "U", "E", "C", "E", "N", "T", "R",
             "I", "C">>),
      Text(ComputerName), Text(<<>>),
      Bytes(encrypt(CIPHER, rows[1], rows[2], AccessVerify).cval)>>

AuthName == <<"C", "I", "A", "N", "B", "R", "P", "C", " ", "A", "U", "T", "H">>

\* connect, lines 274-277: build the connect message, send it, read the reply
ConnectStep(r, peer) ==
    LET b == Build(r, makeCIARequest(r.sequence, "C", ConnectParams))
        x == Exchange(b.sock, peer.connect, CIAEndMark)
    IN  IF b.exc # "none" THEN b
        ELSE [b EXCEPT !.wire = Logged(@, "CIA connect", x), !.exc = x.exc]

\* connect, lines 279-292: reset self.uid, build and send the authentication
\* request, read the reply, test its second line, set self.uid
AuthStep(r, peer) ==
    LET b == Build([r EXCEPT !.uid = <<>>],
                   CIA_makeRequest(r.sequence, <<>>, AuthName,
                                   AuthParams(peer.rows)))
        x == Exchange(b.sock, peer.auth, CIAEndMark)
        a == [b EXCEPT !.wire = Logged(@, "CIANBRPC AUTH", x), !.exc = x.exc]
        replyLines == Split(x.msg, CR)
    IN  IF b.exc # "none" THEN b
        ELSE IF x.exc # "none" THEN a
        ELSE IF ~(Len(replyLines) > 1 /\ MatchNumberCaret(replyLines[2]))
        THEN [a EXCEPT !.exc = "Exception"]
        ELSE [a EXCEPT !.uid = UidOf(replyLines[2]), !.ready = TRUE]

\* CIARPCConnection.connect against a peer that refuses the TCP connection
\* or not, answers the connect message with peer.connect and the
\* authentication request with peer.auth
CIARPCConnection_connect(r, peer) ==
    LET opened == {a \in RPCConnection_connect(r) :
                     (a.exc # "none") = peer.refused}
        greeted == Bind(opened, LAMBDA a : {ConnectStep(a, peer)})
    IN  Bind(greeted, LAMBDA a : {AuthStep(a, peer)})

\* RPCConnection.invokeRPC on a CIARPCConnection, lines 84-93: the request
\* is built inside the try, and a TypeError is not a socket.error
CIAFirstAttempt(r, name, params, io) ==
    LET b == Build(r, CIA_makeRequest(r.sequence, r.uid, name, params))
        x == Exchange(b.sock, io, CIAEndMark)
        m == IF x.exc = "socket.error" THEN <<>> ELSE x.msg
        a == [b EXCEPT !.wire = Logged(@, "RPC", x),
                       !.attempts = Append(@, io),
                       !.tried = Append(@, b.sock)]
    IN  IF b.exc # "none" THEN b
        ELSE IF x.exc = "IndexError" THEN [a EXCEPT !.exc = x.exc]
        ELSE [a EXCEPT !.msg = m, !.marked = x.marked,
                       !.done = ~NeedsRecovery(m)]

\* lines 99-103 on a CIARPCConnection
CIAResend(r, name, params, io) ==
    LET b == Build(r, CIA_makeRequest(r.sequence, r.uid, name, params))
        x == Exchange(b.sock, io, CIAEndMark)
        a == [b EXCEPT !.wire = Logged(@, "RPC", x),
                       !.attempts = Append(@, io),
                       !.tried = Append(@, b.sock)]
    IN  IF b.exc # "none" THEN b
        ELSE IF x.exc # "none"
        THEN [a EXCEPT !.exc = x.exc, !.msg = <<>>, !.marked = FALSE]
        ELSE [a EXCEPT !.msg = x.msg, !.marked = x.marked, !.done = TRUE]

\* RPCConnection.invokeRPC on a CIARPCConnection
CIA_invokeRPC(r, name, params, peer) ==
    LET connected == IF r.sock = "None"
                     THEN CIARPCConnection_connect(r, peer)
                     ELSE {r}
        tried == Bind(connected,
                      LAMBDA a : {CIAFirstAttempt(a, name, params, peer.first)})
        reconnected == Bind(tried,
                            LAMBDA a : CIARPCConnection_connect(a, peer))
    IN  Bind(reconnected,
             LAMBDA a : {CIAResend(a, name, params, peer.resend)})

\* ------------------------------------------ a caller of the pure methods
\* names, parameters, fields and plaintexts the caller passes
RequestNames == {<<"X", "U", "S">>, <<"T", "C", "P", "C", "o", "n", "n", "e", "c", "t">>}

LongText == [i \in 1..LongLen |-> "a"]

ParamValues ==
    {Scalar(<<>>), Scalar(<<"2">>), Scalar(<<"f", "0", "0", "1">>),
     Scalar(LongText), Dict(<<>>),
     Dict(<< <<<<"1">>, <<"a", "t">>>> >>),
     Dict(<< <<<<"1">>, <<>>>>, <<<<"k", "2">>, <<"f">>>> >>)}

RECURSIVE SeqsUpTo(_, _)
SeqsUpTo(S, n) ==
    IF n = 0 THEN {<<>>}
    ELSE LET shorter == SeqsUpTo(S, n - 1)
         IN  shorter \cup {Append(s, x) : s \in shorter, x \in S}

FieldLengths == (0..MaxFieldLen) \cup {255, 256, 4095, 4096, 4097}

\* a str of n characters, a bytes object of n byte values
FieldValue(kind, n) ==
    IF kind = "str"
    THEN [type |-> "str", val |-> [i \in 1..n |-> "a"]]
    ELSE [type |-> "bytes", val |-> [i \in 1..n |-> Ord("a")]]

Plaintexts == SeqsUpTo({"A", ";", "^"}, MaxPlain) \ {<<>>}

\* bound of the chunks recv() returns for one reply
MaxChunks == 3

\* chunks recv() can return before the stream ends: text, an end marker at
\* the end, inside or alone, the leading pair chr(0) chr(0) with and without
\* text behind it, half of the pair, and chr(0) before other text
ReplyChunks ==
    {<<"x">>, <<"x", EOT>>, <<EOT, "x">>, <<EOT>>,
     <<NUL, NUL, "x">>, <<NUL, NUL, "x", EOT>>, <<NUL, NUL, EOT>>,
     <<NUL, NUL>>, <<NUL>>, <<NUL, "x", "y", EOT>>}

\* a call of opName with args that has not run yet
Pending(opName, args) ==
    [op |-> opName, rpc |-> args, done |-> FALSE, r |-> <<>>]

\* the call returns or raises with result
Called(result) ==
    /\ ~call.done
    /\ call' = [call EXCEPT !.done = TRUE, !.r = result]
    /\ UNCHANGED <<connectionQueue, sock, ready, pc, connection, connections,
                   number, sequence, uid>>

Call_makeRequest ==
    /\ call.op = "makeRequest"
    /\ Called(makeRequest(call.rpc.name, call.rpc.params, call.rpc.isCommand))

Call_byteIt ==
    /\ call.op = "__byteIt"
    /\ Called(byteIt(call.rpc))

\* the stream is what recv() returns call after call, empty at its end
Call_readToEndMarker ==
    /\ call.op = "readToEndMarker"
    /\ Called(readToEndMarker(call.rpc, VistAEndMark))

\* __makeCIARequest as connect calls it ("C") and as makeRequest calls it
\* ("R", for an RPC with one parameter before the session has a uid), on a
\* transport whose counter is call.rpc.sequence
Call_makeCIARequest ==
    /\ call.op = "__makeCIARequest"
    /\ Called(IF call.rpc.rtype = "C"
              THEN makeCIARequest(call.rpc.sequence, "C", ConnectParams)
              ELSE CIA_makeRequest(call.rpc.sequence, <<>>, call.rpc.name,
                                   <<Text(<<"2">>)>>))

\* encrypt draws ra and rb itself
Call_encrypt ==
    /\ call.op = "encrypt"
    /\ \E p \in RowPairs :
         Called([ra |-> p[1], rb |-> p[2]]
                @@ encrypt(call.rpc.cipher, p[1], p[2], call.rpc.val))

\* one call of one of the methods, on any of the arguments
InitF ==
    /\ connectionQueue = <<>>
    /\ sock = [t \in Conns |-> "None"]
    /\ ready = [t \in Conns |-> FALSE]
    /\ pc = [c \in Callers |-> "off"]
    /\ connection = [c \in Callers |-> 0]
    /\ connections = [c \in Callers |-> <<>>]
    /\ number = [c \in Callers |-> 0]
    /\ sequence = 0
    /\ uid = <<>>
    /\ \/ \E name \in RequestNames, params \in SeqsUpTo(ParamValues, MaxParams),
             isCommand \in BOOLEAN :
             call = Pending("makeRequest", [name |-> name, params |-> params,
                                            isCommand |-> isCommand])
       \/ \E n \in FieldLengths : call = Pending("__byteIt", FieldValue("str", n))
       \/ \E n \in FieldLengths : call = Pending("__byteIt", FieldValue("bytes", n))
       \/ \E cipher \in {CIPHER, PlaceholderCIPHER}, val \in Plaintexts :
             call = Pending("encrypt", [cipher |-> cipher, val |-> val])
       \/ \E stream \in SeqsUpTo(ReplyChunks, MaxChunks) :
             call = Pending("readToEndMarker", stream)
       \/ \E n \in 0..(SequenceWrap - 1), rtype \in {"C", "R"} :
             call = Pending("__makeCIARequest",
                            [sequence |-> n, rtype |-> rtype,
                             name |-> <<"X", "U", "S">>])

NextF ==
    \/ Call_makeRequest
    \/ Call_byteIt
    \/ Call_encrypt
    \/ Call_readToEndMarker
    \/ Call_makeCIARequest

SpecF == InitF /\ [][NextF]_vars

\* ------------------------------------------ a client of a CIARPCConnection
\* bound of the requests a CIA transport is asked to build
MaxBuilds == 6

\* replies of a CIA broker: a text, an authentication reply whose second
\* line is 7^x, and one of a single line
CIATextReply == << <<"x", "y", EOD>> >>
CIAAuthReply == << <<"1", CR, "7", "^", "x", EOD>> >>
CIAOneLineReply == << <<"0", EOD>> >>

\* what the peer does during one call
Peers ==
    [refused : BOOLEAN,
     connect : {IO("none", CIATextReply)},
     auth : {IO("none", s) : s \in {CIAAuthReply, CIAOneLineReply, ClosedReply}},
     first : {IO("send", <<>>), IO("none", ClosedReply), IO("none", CIATextReply)},
     resend : {IO("none", ClosedReply), IO("none", CIATextReply)},
     rows : {<<0, 1>>, <<18, 17>>}]

CIAFinish(opName, args, r) ==
    /\ call' = [op |-> opName, rpc |-> args, r |-> r]
    /\ sock' = [sock EXCEPT ![Mine] = r.sock]
    /\ ready' = [ready EXCEPT ![Mine] = r.ready]
    /\ sequence' = r.sequence
    /\ uid' = r.uid
    /\ UNCHANGED <<connectionQueue, pc, connection, connections, number>>

CIAClient_connect ==
    /\ sequence < MaxBuilds
    /\ \E peer \in Peers :
         \E r \in CIARPCConnection_connect(
                      NewCIARun(sock[Mine], ready[Mine], sequence, uid), peer) :
           CIAFinish("CIA.connect", [peer |-> peer], r)

CIAClient_invokeRPC ==
    /\ sequence < MaxBuilds
    /\ \E peer \in Peers, name \in RequestNames :
         \E r \in CIA_invokeRPC(
                      NewCIARun(sock[Mine], ready[Mine], sequence, uid),
                      name, <<Text(<<"2">>)>>, peer) :
           CIAFinish("CIA.invokeRPC", [peer |-> peer, name |-> name], r)

\* a CIARPCConnection constructed outside any pool
InitCIA == InitT

NextCIA ==
    \/ CIAClient_connect
    \/ CIAClient_invokeRPC

SpecCIA == InitCIA /\ [][NextCIA]_vars

\* ------------------------------------------ VistaRpcClient (RPC Demo): notes
\* _set_document_text: DOCUMENT_PAGE_SIZE = 300
DOCUMENT_PAGE_SIZE == 300

\* _filter_string: tab_width=8
TabWidth == 8

\* bound of the pages a note text is sent in
MaxPages == 3

\* text.encode('cp1252', errors='replace') for the characters used here:
\* code points up to 127 and 160..255 keep their value, the euro sign is
\* byte 128, a character cp1252 does not have becomes "?"
Cp1252(c) ==
    IF c < 128 \/ (c >= 160 /\ c <= 255) THEN c
    ELSE IF c = 8364 THEN 128
    ELSE 63

\* _filter_string, lines 73-87: what one byte other than a tab becomes
FilterByte(b) ==
    IF b >= 32 /\ b <= 127 THEN b
    ELSE IF b >= 128 /\ b <= 159 THEN 63
    ELSE IF b \in {10, 13, 160} THEN 32
    ELSE IF b >= 161 /\ b <= 255 THEN b
    ELSE 63

\* _filter_string, lines 67-87: the loop, with current_col
RECURSIVE FilterChars(_, _)
FilterChars(bytes, current_col) ==
    IF bytes = <<>> THEN <<>>
    ELSE IF Head(bytes) = 9
    THEN LET spaces_to_add == TabWidth - (current_col % TabWidth)
         IN  [i \in 1..spaces_to_add |-> 32]
             \o FilterChars(Tail(bytes), current_col + spaces_to_add)
    ELSE <<FilterByte(Head(bytes))>> \o FilterChars(Tail(bytes), current_col + 1)

\* str.rstrip(' ')
RECURSIVE RStrip(_)
RStrip(s) == IF s # <<>> /\ Last(s) = 32 THEN RStrip(Front(s)) ELSE s

\* VistaRpcClient._filter_string, on the code points of text
filter_string(text) ==
    LET final_result == FilterChars([i \in 1..Len(text) |-> Cp1252(text[i])], 0)
    IN  IF final_result # <<>> /\ Last(final_result) = 32
        THEN IF RStrip(final_result) # <<>>
             THEN Append(RStrip(final_result), 32)
             ELSE <<>>
        ELSE final_result

\* the text of line i of the notes written here: its number, then a tab,
\* nothing, or two spaces
NoteLine(i) ==
    CodePoints(Str(i))
    \o (CASE i % 3 = 0 -> <<9>> [] i % 3 = 1 -> <<>> [] OTHER -> <<32, 32>>)

\* a note text of n lines, as note_text.splitlines() gives it
note_text_lines(n) == [i \in 1..n |-> NoteLine(i)]

\* the lengths of the note texts: none, one line, and one line less than,
\* exactly, and one line more than a number of full pages
NoteLengths ==
    {0, 1} \cup {k * DOCUMENT_PAGE_SIZE + d : k \in 1..(MaxPages - 1), d \in {-1, 0, 1}}

StartsWith(s, prefix) ==
    Len(s) >= Len(prefix) /\ SubSeq(s, 1, Len(prefix)) = prefix

\* str.isdigit() of a non-empty reply
IsDigit(s) == s # <<>> /\ \A i \in 1..Len(s) : s[i] \in DecimalDigits

\* lines 625-626: pages
PagesOf(num_lines) ==
    LET pages == (num_lines \div DOCUMENT_PAGE_SIZE)
                 + (IF num_lines % DOCUMENT_PAGE_SIZE > 0 THEN 1 ELSE 0)
    IN  IF pages = 0 THEN 1 ELSE pages

\* pages that each begin with the last line of the page before
PageLinesFromLastLine(lines, page_num) ==
    LET start_index == (page_num - 1) * (DOCUMENT_PAGE_SIZE - 1)
        end_index == IF start_index + DOCUMENT_PAGE_SIZE < Len(lines)
                     THEN start_index + DOCUMENT_PAGE_SIZE ELSE Len(lines)
    IN  SubSeq(lines, start_index + 1, end_index)

\* lines 649-651: current_page_lines = note_text_lines[start_index:end_index]
PageLines(lines, page_num) ==
    LET start_index == (page_num - 1) * DOCUMENT_PAGE_SIZE
        end_index == IF start_index + DOCUMENT_PAGE_SIZE < Len(lines)
                     THEN start_index + DOCUMENT_PAGE_SIZE ELSE Len(lines)
    IN  SubSeq(lines, start_index + 1, end_index)

\* f"{page_num}^{pages}"
Header(page_num, pages) == Str(page_num) \o <<"^">> \o Str(pages)

\* lines 653-659: multiples; text[i] is the entry of key "TEXT",i,0
Multiples(lines, page_num, pages) ==
    LET current_page_lines == PageLines(lines, page_num)
    IN  [text |-> [i \in 1..Len(current_page_lines) |->
                     filter_string(current_page_lines[i])],
         hdr |-> Header(page_num, pages)]

\* line 633: multiples = {'"HDR"': f"1^{pages}"}
EmptyMultiples(pages) == [text |-> <<>>, hdr |-> Header(1, pages)]

\* what _set_document_text sends for each page of each of the note
\* texts, computed once
TextBodies ==
    [n \in NoteLengths |->
        IF n = 0 THEN <<EmptyMultiples(PagesOf(n))>>
        ELSE [p \in 1..PagesOf(n) |->
                Multiples(note_text_lines(n), p, PagesOf(n))]]

UnknownEmptyError == <<"Unknown error during empty text set.">>
UnknownError == <<"Unknown error during text set.">>

\* lines 640-643: error_message of the empty note's one call
EmptyTextError(result) ==
    IF result # <<>> /\ StartsWith(result, <<"0", "^">>) THEN <<>>
    ELSE IF result # <<>> THEN result
    ELSE UnknownEmptyError

\* lines 668-678: error_message of a page's call
PageTextError(result) ==
    IF result = <<>> THEN UnknownError
    ELSE LET parts == Split(result, "^")
         IN  IF Len(parts) >= 4 /\ parts[4] # <<>> THEN parts[4]
             ELSE IF Len(parts) >= 2 /\ parts[2] = <<"1">> THEN <<>>
             ELSE result

\* what self.connection.invoke does: it raises, or returns one of replies
Outcomes(replies) ==
    {[raised |-> TRUE, reply |-> <<>>]}
    \cup {[raised |-> FALSE, reply |-> x] : x \in replies}

\* login(): with a connection it returns True; without one it connects,
\* returns False when the connection details are not set, or re-raises
\* what connect raised
LoginOutcomes(connected) ==
    IF connected THEN {"ok"} ELSE {"ok", "False", "raise"}

NoBody == [text |-> <<>>, hdr |-> <<>>]

\* invoke_rpc(name, PLiteral(ien), ...) in state c of the method: login(),
\* then self.connection.invoke.  sent is the log of the RPCs invoked.
invoke_rpc(c, name, ien, body, lg, out) ==
    IF lg # "ok"
    THEN [after |-> c, reply |-> <<>>,
          exc |-> IF lg = "False" THEN "ConnectionError" ELSE "connect"]
    ELSE [after |-> [c EXCEPT !.connected = TRUE,
                              !.sent = Append(@, [name |-> name, ien |-> ien,
                                                  body |-> body, out |-> out])],
          reply |-> out.reply,
          exc |-> IF out.raised THEN "invoke" ELSE "none"]

\* the method is left: return (pending "return") or raise
Exit(c, pending, value) ==
    [c EXCEPT !.done = TRUE, !.at = "exit",
              !.r = [exc |-> IF pending = "return" THEN "none" ELSE pending,
                     value |-> value]]

\* a try statement whose finally clause runs only when the body returns
FinallyOnReturn(pending) == IF pending = "return" THEN "unlock" ELSE "exit"

\* create_note lines 841-843, create_addendum lines 941-943: the finally
\* clause runs however the try body is left
Finally(pending) == "unlock"

\* the try body is left with pending
Leave(c, pending) ==
    IF Finally(pending) = "unlock"
    THEN [c EXCEPT !.at = "unlock", !.pending = pending]
    ELSE Exit(c, pending, <<>>)

NoteOps == {"create_note", "create_addendum"}

\* a call of opName on args that has not started
NoteCall(opName, args, first) ==
    [op |-> opName, rpc |-> args, done |-> FALSE, r |-> <<>>, at |-> first,
     connected |-> args.connected, ien |-> args.ien, page_num |-> 1,
     pending |-> "none", sent |-> <<>>]

NoteStep(c) ==
    /\ ~call.done
    /\ call' = c
    /\ UNCHANGED <<connectionQueue, sock, ready, pc, connection, connections,
                   number, sequence, uid>>

UserInfoReplies == {<<"5", "^", "N">>}
CreateReplies == {<<"7">>, <<>>, <<"0", "^", "e">>}
LockReplies == {<<"0">>, <<"1", "^", "e">>}
UpdateReplies == {<<"7">>}
AuthorizationReplies == {<<"1">>, <<"0", "^", "e">>}
SetTextReplies ==
    {<<"0", "^", "1">>, <<"0", "^", "0">>, <<"1", "^", "1">>, <<>>,
     <<"0", "^", "0", "^", "^", "e">>}
SignReplies == {<<"0", "^", "1">>, <<"1", "^", "e">>}
UnlockReplies == {<<"1">>, <<"0">>}

\* get_user_info(): invoke_rpc("ORWU USERINFO")
Note_user_info ==
    /\ call.op \in NoteOps /\ call.at = "user_info"
    /\ \E lg \in LoginOutcomes(call.connected), out \in Outcomes(UserInfoReplies) :
         LET x == invoke_rpc(call, "ORWU USERINFO", <<>>, NoBody, lg, out)
         IN  NoteStep(IF x.exc # "none" THEN Exit(x.after, x.exc, <<>>)
                      ELSE [x.after EXCEPT !.at = "create"])

\* Step 1: TIU CREATE RECORD / TIU CREATE ADDENDUM RECORD; the reply is the
\* record's IEN, anything else raises
Note_create ==
    /\ call.op \in NoteOps /\ call.at = "create"
    /\ \E lg \in LoginOutcomes(call.connected), out \in Outcomes(CreateReplies) :
         LET name == IF call.op = "create_note" THEN "TIU CREATE RECORD"
                     ELSE "TIU CREATE ADDENDUM RECORD"
             x == invoke_rpc(call, name, <<>>, NoBody, lg, out)
         IN  NoteStep(IF x.exc # "none" THEN Exit(x.after, x.exc, <<>>)
                      ELSE IF ~IsDigit(x.reply) THEN Exit(x.after, "Exception", <<>>)
                      ELSE [x.after EXCEPT !.ien = x.reply, !.at = "lock"])

\* create_note lines 804-812: subject_line is not empty
HasSubject(n) == n > 0 /\ filter_string(NoteLine(1)) # <<>>

\* lock_record(note_ien), first statement of the try body
Note_lock ==
    /\ call.op \in NoteOps /\ call.at = "lock"
    /\ \E lg \in LoginOutcomes(call.connected), out \in Outcomes(LockReplies) :
         LET x == invoke_rpc(call, "TIU LOCK RECORD", call.ien, NoBody, lg, out)
         IN  NoteStep(IF x.exc # "none" THEN Leave(x.after, x.exc)
                      ELSE IF ~StartsWith(x.reply, <<"0">>)
                      THEN Leave(x.after, "Exception")
                      ELSE [x.after EXCEPT !.at =
                              IF call.op = "create_addendum" THEN "set_text"
                              ELSE IF HasSubject(call.rpc.n) THEN "update"
                              ELSE "authorize"])

\* create_note Step 3: TIU UPDATE RECORD with the subject line
Note_update ==
    /\ call.op = "create_note" /\ call.at = "update"
    /\ \E lg \in LoginOutcomes(call.connected), out \in Outcomes(UpdateReplies) :
         LET x == invoke_rpc(call, "TIU UPDATE RECORD", call.ien, NoBody, lg, out)
         IN  NoteStep(IF x.exc # "none" THEN Leave(x.after, x.exc)
                      ELSE [x.after EXCEPT !.at = "authorize"])

\* create_note Step 4: TIU AUTHORIZATION; a refusal is only logged
Note_authorize ==
    /\ call.op = "create_note" /\ call.at = "authorize"
    /\ \E lg \in LoginOutcomes(call.connected),
          out \in Outcomes(AuthorizationReplies) :
         LET x == invoke_rpc(call, "TIU AUTHORIZATION", call.ien, NoBody, lg, out)
         IN  NoteStep(IF x.exc # "none" THEN Leave(x.after, x.exc)
                      ELSE [x.after EXCEPT !.at = "set_text"])

\* _set_document_text has raised exc in state c
TextRaised(c, exc) ==
    IF c.op = "_set_document_text" THEN Exit(c, exc, <<>>) ELSE Leave(c, exc)

\* _set_document_text has returned error_message in state c: the direct
\* call is over; create_note lines 826-840 and create_addendum lines
\* 926-939 raise on an error message, go on to sign, or leave unsigned
TextReturned(c, error_message) ==
    IF c.op = "_set_document_text" THEN Exit(c, "return", error_message)
    ELSE IF error_message # <<>> THEN Leave(c, "Exception")
    ELSE IF ~c.rpc.sign THEN Leave(c, "return")
    ELSE IF ~c.rpc.es_code THEN Leave(c, "ValueError")
    ELSE [c EXCEPT !.at = "sign"]

\* a loop that sends every page whatever the replies are
NeverStops(error_message) == FALSE

\* lines 680-682: if error_message: ... return error_message
StopsOn(error_message) == error_message # <<>>

\* _set_document_text: one TIU SET DOCUMENT TEXT call, for the empty note
\* (lines 631-644) or for page page_num (lines 647-682)
SetText_SendPage ==
    /\ call.op \in NoteOps \cup {"_set_document_text"} /\ call.at = "set_text"
    /\ \E lg \in LoginOutcomes(call.connected), out \in Outcomes(SetTextReplies) :
         LET n == call.rpc.n
             x == invoke_rpc(call, "TIU SET DOCUMENT TEXT", call.ien,
                             TextBodies[n][call.page_num], lg, out)
         IN  NoteStep(IF x.exc # "none" THEN TextRaised(x.after, x.exc)
                      ELSE IF n = 0
                      THEN TextReturned(x.after, EmptyTextError(x.reply))
                      ELSE IF StopsOn(PageTextError(x.reply))
                      THEN TextReturned(x.after, PageTextError(x.reply))
                      ELSE IF call.page_num = PagesOf(n)
                      THEN TextReturned(x.after, <<>>)
                      ELSE [x.after EXCEPT !.page_num = @ + 1])

\* TIU SIGN RECORD with the signature code
Note_sign ==
    /\ call.op \in NoteOps /\ call.at = "sign"
    /\ \E lg \in LoginOutcomes(call.connected), out \in Outcomes(SignReplies) :
         LET x == invoke_rpc(call, "TIU SIGN RECORD", call.ien, NoBody, lg, out)
         IN  NoteStep(IF x.exc # "none" THEN Leave(x.after, x.exc)
                      ELSE IF ~StartsWith(x.reply, <<"0", "^">>)
                      THEN Leave(x.after, "Exception")
                      ELSE Leave(x.after, "return"))

\* finally: self.unlock_record(note_ien); an exception of unlock_record
\* replaces the pending one
Note_unlock ==
    /\ call.op \in NoteOps /\ call.at = "unlock"
    /\ \E lg \in LoginOutcomes(call.connected), out \in Outcomes(UnlockReplies) :
         LET x == invoke_rpc(call, "TIU UNLOCK RECORD", call.ien, NoBody, lg, out)
         IN  NoteStep(IF x.exc # "none" THEN Exit(x.after, x.exc, <<>>)
                      ELSE Exit(x.after, call.pending, <<>>))

\* one call of create_note or create_addendum on a client with or without a
\* connection, or of _set_document_text for an existing record on a
\* connected client
InitNote ==
    /\ connectionQueue = <<>>
    /\ sock = [t \in Conns |-> "None"]
    /\ ready = [t \in Conns |-> FALSE]
    /\ pc = [c \in Callers |-> "off"]
    /\ connection = [c \in Callers |-> 0]
    /\ connections = [c \in Callers |-> <<>>]
    /\ number = [c \in Callers |-> 0]
    /\ sequence = 0
    /\ uid = <<>>
    /\ \/ \E opName \in NoteOps, n \in NoteLengths, sign \in BOOLEAN,
             es_code \in BOOLEAN, connected \in BOOLEAN :
             call = NoteCall(opName,
                             [n |-> n, sign |-> sign, es_code |-> es_code,
                              connected |-> connected, ien |-> <<>>],
                             "user_info")
       \/ \E n \in NoteLengths :
             call = NoteCall("_set_document_text",
                             [n |-> n, sign |-> FALSE, es_code |-> FALSE,
                              connected |-> TRUE, ien |-> <<"7">>],
                             "set_text")

NextNote ==
    \/ Note_user_info
    \/ Note_create
    \/ Note_lock
    \/ Note_update
    \/ Note_authorize
    \/ SetText_SendPage
    \/ Note_sign
    \/ Note_unlock

SpecNote == InitNote /\ [][NextNote]_vars

\* ------------------------------------------------------------ properties
\* C1: no connection is held by two threads at once, and a connection a
\* thread holds is not in the store, so no other get() can return it before
\* the holder puts it back.
C1_NoDoubleLending ==
    /\ \A c1, c2 \in Callers : c1 # c2 => Held(c1) \cap Held(c2) = {}
    /\ \A c \in Callers : Held(c) \cap Range(connectionQueue) = {}
    /\ \A i, j \in 1..Len(connectionQueue) :
         i # j => connectionQueue[i] # connectionQueue[j]

\* two threads hold different connections at the same time, one inside
\* invokeRPC and one inside preconnect
C1_Witness ==
    \E c1, c2 \in Callers :
        /\ c1 # c2
        /\ pc[c1] = "pool_invoke"
        /\ pc[c2] = "pre_connect"
        /\ connection[c1] # connection[c2]

\* C2: whenever a pool invokeRPC call ends, by return or by raise, the
\* connection it borrowed is in the store.
C2_ReturnedOnEveryExit ==
    [][\A c \in Callers :
         (pc[c] = "pool_invoke" /\ pc'[c] = "idle")
            => connection[c] \in Range(connectionQueue')]_vars

\* C3: a thread waiting in get() can take a connection exactly when the
\* store is not empty: it stays in get() while the store is empty, the
\* step that takes it out of get() hands it the connection put last, and
\* while connections remain in the store no borrower is blocked.
C3_BlocksOnlyWhenEmpty ==
    /\ [](\A c \in Callers :
            (pc[c] = "pool_get" /\ connectionQueue # <<>>)
               => ENABLED Pool_invokeRPC_Get(c))
    /\ [][\A c \in Callers :
            /\ (pc[c] = "pool_get" /\ connectionQueue = <<>>)
                  => pc'[c] = "pool_get"
            /\ (pc[c] = "pool_get" /\ pc'[c] # "pool_get")
                  => /\ connectionQueue # <<>>
                     /\ connection'[c] = Last(connectionQueue)
                     /\ connection'[c] \notin Range(connectionQueue')]_vars

\* PoolSize threads are inside connection.invokeRPC and one more waits in
\* get() on the empty store
C3_Witness ==
    /\ connectionQueue = <<>>
    /\ Cardinality({c \in Callers : pc[c] = "pool_invoke"}) = PoolSize
    /\ \E c \in Callers : pc[c] = "pool_get"

\* C4: every thread waiting in get() eventually obtains a connection.
C4_EveryCallerObtains ==
    \A c \in Callers : (pc[c] = "pool_get") ~> (pc[c] = "pool_invoke")

\* what the peer did on an exchange, as invokeRPC sees it
Reply(io) == readToEndMarker(io.stream, VistAEndMark)
EmptyOrError(s, io) ==
    \/ s # "open"
    \/ io.err # "none"
    \/ (Reply(io).exc = "none" /\ Reply(io).msg = <<>>)
ValidReply(io) ==
    /\ io.err = "none"
    /\ Reply(io).exc = "none" /\ Reply(io).marked /\ Reply(io).msg # <<>>

\* the socket events of a complete handshake
FullHandshake ==
    <<"connect", TCPConnect, "read", SignonSetup, "read", AVCode, "read",
      CreateContext, "read">>

IsInvoke == call.op = "invokeRPC"

\* the first attempt of the last invokeRPC, entered with a socket, got an
\* empty reply or a socket error
FirstAttemptFailed ==
    /\ IsInvoke
    /\ call.r.entry # "None"
    /\ Len(call.r.attempts) >= 1
    /\ EmptyOrError(call.r.entry, call.r.attempts[1])

\* C5: when the first attempt on a connected transport gets an empty reply
\* or a socket error, invokeRPC reconnects exactly once; when that
\* handshake completes it resends the request exactly once; and when the
\* reply to the resend is valid and non-empty it returns that reply.
C5_OneReconnectOneResend ==
    FirstAttemptFailed =>
        LET r == call.r
            first == {<<>>, <<call.rpc>>, <<call.rpc, "read">>}
        IN
        /\ Count(r.wire, "connect") = 1
        /\ r.ready => Len(r.attempts) = 2
        /\ (Len(r.attempts) = 2 /\ ValidReply(r.attempts[2]))
              => /\ r.exc = "none" /\ r.done
                 /\ r.msg = Reply(r.attempts[2]).msg
                 /\ r.wire \in {p \o FullHandshake \o <<call.rpc, "read">> :
                                p \in first}

\* an empty first reply, then a valid reply after the reconnect, returned
C5_Witness ==
    /\ FirstAttemptFailed
    /\ call.r.attempts[1] = IO("none", ClosedReply)
    /\ Len(call.r.attempts) = 2
    /\ ValidReply(call.r.attempts[2])
    /\ call.r.done
    /\ Count(call.r.wire, call.rpc) = 2

\* C6: invokeRPC never returns the empty string: when the reply to the
\* resend is empty as well, it raises.
C6_NeverReturnsEmpty ==
    (IsInvoke /\ call.r.exc = "none") => call.r.msg # <<>>

\* C7: one invokeRPC call writes the request at most twice and runs
\* connect() at most twice.
C7_AtMostTwoSendsTwoConnects ==
    IsInvoke =>
        /\ Count(call.r.wire, call.rpc) <= 2
        /\ Count(call.r.wire, "connect") <= 2

\* a call that connected lazily, reconnected and wrote the request twice
C7_Witness ==
    /\ IsInvoke
    /\ Count(call.r.wire, call.rpc) = 2
    /\ Count(call.r.wire, "connect") = 2

\* C8: a reply invokeRPC returns was read up to an end marker; text
\* received before the peer closed the stream is not returned.
C8_OnlyCompleteReplies ==
    (IsInvoke /\ call.r.exc = "none") => call.r.marked

\* C9: after connect() raised on a handshake reply the transport has no
\* socket handle.
C9_DisconnectedAfterHandshakeError ==
    (call.op = "connect" /\ call.r.exc = "Exception") => sock[Mine] = "None"

\* C10: when the TCP connection is made and every handshake reply is a
\* good one (accept..., then non-error text), connect() writes exactly the
\* four requests in order, each after the previous reply was read, and
\* returns with the transport Ready.
C10_HandshakeOrder ==
    (call.op = "connect" /\ call.r.hsGood) =>
        /\ call.r.wire = FullHandshake
        /\ call.r.exc = "none"
        /\ sock[Mine] = "open"
        /\ ready[Mine]

\* a connect() that got four good replies
C10_Witness ==
    /\ call.op = "connect"
    /\ call.r.hsGood
    /\ Count(call.r.wire, "read") = 4

\* the socket events of the call's last connect() and whatever followed it
RECURSIVE SinceLastConnect(_)
SinceLastConnect(w) ==
    IF w = <<>> \/ Last(w) = "connect" THEN <<"connect">>
    ELSE Append(SinceLastConnect(Front(w)), Last(w))

HasConnected == call.op \in {"connect", "invokeRPC"} /\ call.r.hsBad # <<>>

\* C11: when a handshake reply is an error reply (step 1 not beginning
\* with accept, step 3 with the invalid-pair text, step 4 with a context
\* error text), connect() raises at that step: the requests up to and
\* including that step were written, none of the later ones, and nothing
\* else follows on the socket.
C11_AbortsAtFirstFailingStep ==
    (HasConnected /\ Last(call.r.hsBad) # 0) =>
        /\ call.r.exc = "Exception"
        /\ ~call.r.ready
        /\ SinceLastConnect(call.r.wire)
              = SubSeq(FullHandshake, 1, 1 + 2 * Last(call.r.hsBad))

\* connect() read the invalid-pair reply at step 3 after two good replies
C11_Witness ==
    /\ call.op = "connect"
    /\ call.r.hsBad = <<3>>
    /\ call.r.wire = SubSeq(FullHandshake, 1, 7)

\* C12: when invokeRPC is entered without a socket and its lazy connect()
\* meets a handshake error reply, invokeRPC raises that error: the request
\* is never written and connect() ran once.
C12_LazyConnectFailureSurfaces ==
    (IsInvoke /\ call.r.entry = "None" /\ call.r.hsBad[1] # 0) =>
        /\ call.r.exc = "Exception"
        /\ ~call.r.done
        /\ Count(call.r.wire, call.rpc) = 0
        /\ Count(call.r.wire, "connect") = 1
        /\ call.r.attempts = <<>>

\* invokeRPC on a transport without a socket, whose connect() was refused
\* the context
C12_Witness ==
    /\ IsInvoke
    /\ call.r.entry = "None"
    /\ call.r.hsBad = <<4>>
    /\ call.r.exc = "Exception"

\* C13: close() on an open socket writes #BYE# once and closes the socket,
\* and close() on a transport already closed writes nothing and raises
\* nothing.
C13_CloseIdempotent ==
    call.op = "close" =>
        /\ (call.r.entry = "open" /\ call.r.exc = "none")
              => (call.r.wire = <<BYE>> /\ sock[Mine] = "closed")
        /\ call.r.entry = "closed"
              => (call.r.exc = "none" /\ call.r.wire = <<>>)

\* the reply to the call's first attempt was read and is not empty
FirstReplyNonEmpty ==
    /\ Len(call.r.attempts) >= 1
    /\ call.r.attempts[1].err = "none"
    /\ Reply(call.r.attempts[1]).exc = "none"
    /\ Reply(call.r.attempts[1]).msg # <<>>

\* C14: entered without a socket, invokeRPC runs connect() exactly once
\* before its first send of the request (what follows the one handshake is
\* the request, or the reconnect when that send raised); entered on a Ready transport whose
\* reply is not empty, it runs no connect(), writes the request exactly
\* once on the socket it found and leaves the transport Ready.
C14_LazyConnectAndReuse ==
    IsInvoke =>
        LET w == call.r.wire IN
        /\ call.r.entry = "None" =>
              /\ w # <<>> /\ w[1] = "connect"
              /\ call.r.attempts # <<>> =>
                    /\ SubSeq(w, 1, Len(FullHandshake)) = FullHandshake
                    /\ IF call.r.attempts[1].err = "send"
                       THEN Len(w) > Len(FullHandshake)
                               => w[Len(FullHandshake) + 1] = "connect"
                       ELSE w[Len(FullHandshake) + 1] = call.rpc
        /\ (call.r.entry = "open" /\ call.r.entryReady /\ FirstReplyNonEmpty) =>
              /\ w = <<call.rpc, "read">>
              /\ call.r.done
              /\ sock[Mine] = "open" /\ ready[Mine]

\* an invokeRPC on a Ready transport that answered at once
C14_Witness ==
    /\ IsInvoke
    /\ call.r.entry = "open" /\ call.r.entryReady
    /\ FirstReplyNonEmpty
    /\ call.r.done
    /\ Count(call.r.wire, "connect") = 0

\* C15: the constructor puts PoolSize distinct connections, none with a
\* socket, into the store, and the store never holds more than PoolSize
\* connections nor the same connection twice.
C15_StoreHoldsDistinctAtMostN ==
    /\ Len(connectionQueue) = PoolSize
    /\ Range(connectionQueue) = Conns
    /\ \A t \in Conns : sock[t] = "None" /\ ~ready[t]
    /\ [](/\ Len(connectionQueue) <= PoolSize
          /\ \A i, j \in 1..Len(connectionQueue) :
                i # j => connectionQueue[i] # connectionQueue[j])

\* the store is full again after calls that connected every connection
C15_Witness ==
    /\ Len(connectionQueue) = PoolSize
    /\ \A t \in Conns : sock[t] = "open"

\* thread c is inside preconnect
InPreconnect(c) == pc[c] \in {"pre_get", "pre_connect", "pre_put"}

\* C16: a preconnect whose connect() calls all return takes number =
\* min(k, PoolSize) connections from the store, connects each of them once
\* so that it is Ready, touches no other connection, and puts every one of
\* them back: when no connection is missing from the pool and nobody else
\* holds one, the store is full when preconnect returns.
C16_PreconnectWarmsUp ==
    /\ [](\A c \in Callers :
            /\ number[c] <= PoolSize
            /\ InPreconnect(c) =>
                  /\ number[c] >= 1
                  /\ Len(connections[c]) <= number[c]
                  /\ \A t \in Range(connections[c]) :
                        sock[t] = "open" /\ ready[t])
    /\ [][\A c \in Callers :
            /\ (pc[c] = "pre_connect" /\ pc'[c] \in {"pre_get", "pre_put"}) =>
                  /\ connections'[c] = Append(connections[c], connection[c])
                  /\ connection[c] \notin Range(connections[c])
                  /\ sock'[connection[c]] = "open" /\ ready'[connection[c]]
                  /\ (pc'[c] = "pre_put") = (Len(connections'[c]) = number[c])
                  /\ Range(connections'[c]) \cap Range(connectionQueue') = {}
            /\ (InPreconnect(c) /\ pc'[c] # pc[c]) =>
                  \A t \in Conns \ {connection[c]} :
                        sock'[t] = sock[t] /\ ready'[t] = ready[t]
            /\ (pc[c] = "pre_put" /\ pc'[c] = "idle"
                  /\ Range(connectionQueue) \cup Held(c) = Conns) =>
                  /\ Range(connectionQueue') = Conns
                  /\ Len(connectionQueue') = PoolSize]_vars

\* with no other thread in a call, preconnect has taken and connected
\* every connection of the pool and is about to put them back
C16_Witness ==
    \E c \in Callers :
        /\ pc[c] = "pre_put"
        /\ Len(connections[c]) = PoolSize
        /\ \A d \in Callers \ {c} : pc[d] = "idle"

\* ---- the VA request grammar, read back
Digits == {"0", "1", "2", "3", "4", "5", "6", "7", "8", "9"}
NoParse == [ok |-> FALSE]

\* a three-digit decimal length at position i and that many characters
ParseLPack(s, i) ==
    IF i + 2 > Len(s) \/ ~({s[i], s[i + 1], s[i + 2]} \subseteq Digits)
    THEN NoParse
    ELSE LET n == 100 * (Ord(s[i]) - Ord("0")) + 10 * (Ord(s[i + 1]) - Ord("0"))
                  + (Ord(s[i + 2]) - Ord("0"))
         IN  IF i + 2 + n > Len(s) THEN NoParse
             ELSE [ok |-> TRUE, val |-> SubSeq(s, i + 3, i + 2 + n),
                   next |-> i + 3 + n]

\* key/value pairs separated by "t" and closed by "f"
RECURSIVE ParsePairs(_, _, _)
ParsePairs(s, i, items) ==
    LET key == ParseLPack(s, i) IN
    IF ~key.ok THEN NoParse
    ELSE LET val == ParseLPack(s, key.next) IN
         IF ~val.ok \/ val.next > Len(s) THEN NoParse
         ELSE LET more == Append(items, <<key.val, val.val>>) IN
              IF s[val.next] = "t" THEN ParsePairs(s, val.next + 1, more)
              ELSE IF s[val.next] = "f"
                   THEN [ok |-> TRUE, param |-> Dict(more), next |-> val.next + 1]
                   ELSE NoParse

\* one parameter entry at position i
ParseParam(s, i) ==
    IF i + 1 > Len(s) THEN NoParse
    ELSE IF s[i] = "0"
    THEN LET v == ParseLPack(s, i + 1) IN
         IF ~v.ok \/ v.next > Len(s) THEN NoParse
         ELSE IF s[v.next] # "f" THEN NoParse
         ELSE [ok |-> TRUE, param |-> Scalar(v.val), next |-> v.next + 1]
    ELSE IF s[i] = "2"
    THEN IF s[i + 1] = "f"
         THEN [ok |-> TRUE, param |-> Dict(<<>>), next |-> i + 2]
         ELSE ParsePairs(s, i + 1, <<>>)
    ELSE NoParse

\* parameter entries up to the end-of-transmission marker that ends s
RECURSIVE ParseParams(_, _, _)
ParseParams(s, i, params) ==
    IF i > Len(s) THEN NoParse
    ELSE IF i = Len(s)
    THEN IF s[i] = EOT /\ params # <<>>
         THEN [ok |-> TRUE, params |-> params] ELSE NoParse
    ELSE LET p == ParseParam(s, i) IN
         IF ~p.ok THEN NoParse
         ELSE ParseParams(s, p.next, Append(params, p.param))

\* the name and the parameter section, from the name's length byte at j
ParseFromName(s, j, isCommand) ==
    IF j > Len(s) THEN NoParse
    ELSE LET n == Ord(s[j])
             k == j + n + 1
         IN  IF k + 1 > Len(s) THEN NoParse
             ELSE IF s[k] # "5" THEN NoParse
             ELSE LET ps == IF SubSeq(s, k + 1, Len(s)) = <<"4", "f", EOT>>
                            THEN [ok |-> TRUE, params |-> <<>>]
                            ELSE ParseParams(s, k + 1, <<>>)
                  IN  IF ~ps.ok THEN NoParse
                      ELSE [ok |-> TRUE, name |-> SubSeq(s, j + 1, j + n),
                            params |-> ps.params, isCommand |-> isCommand]

ParseRequest(s) ==
    IF Len(s) < 10
       \/ SubSeq(s, 1, 9) # <<"[", "X", "W", "B", "]", "1", "1", "3", "0">>
    THEN NoParse
    ELSE IF s[10] = "4" THEN ParseFromName(s, 11, TRUE)
    ELSE IF Len(s) >= 12 /\ SubSeq(s, 10, 12) = <<"2", Chr(1), "1">>
    THEN ParseFromName(s, 13, FALSE)
    ELSE NoParse

\* C17: parsing the string makeRequest returns, by the VA request grammar,
\* gives back the name and the parameter list it was called with.
C17_RequestRoundTrip ==
    (call.op = "makeRequest" /\ call.done) =>
        LET p == ParseRequest(call.r) IN
        /\ p.ok
        /\ p.name = call.rpc.name
        /\ p.isCommand = call.rpc.isCommand
        /\ p.params = call.rpc.params

\* the field length a header announces: the low nibble of the first byte
\* plus 16 times the number in the extra bytes, most significant first
RECURSIVE BigEndian(_)
BigEndian(bytes) ==
    IF bytes = <<>> THEN 0
    ELSE 256 * BigEndian(Front(bytes)) + Last(bytes)

DecodeLength(fbytes) ==
    LET highCount == fbytes[1] \div 16
    IN  16 * BigEndian(SubSeq(fbytes, 2, 1 + highCount)) + (fbytes[1] % 16)

\* C18: for a field of any length L, __byteIt returns a length header that
\* decodes to L, followed by the field.
C18_LengthHeaderRoundTrip ==
    (call.op = "__byteIt" /\ call.done) =>
        /\ call.r.exc = "none"
        /\ call.r.fbytes # <<>>
        /\ DecodeLength(call.r.fbytes) = Len(call.rpc.val)
        /\ Len(call.r.fbytes)
             = 1 + (call.r.fbytes[1] \div 16) + Len(call.rpc.val)

NoRepeats(row) == \A i, j \in 1..Len(row) : row[i] = row[j] => i = j

\* C19: on the 20-row table, for the rows a and b encrypt drew and every
\* plaintext character c found in row a, the character emitted is found in
\* row b at the position c has in row a, and row a at that position is c;
\* no row repeats a character.
C19_SubstitutionInvertible ==
    (call.op = "encrypt" /\ call.done /\ call.rpc.cipher = CIPHER) =>
        LET a == CIPHER[call.r.ra + 1]
            b == CIPHER[call.r.rb + 1]
        IN
        /\ call.r.exc = "none"
        /\ NoRepeats(a) /\ NoRepeats(b)
        /\ Len(call.r.cval) = Len(call.rpc.val) + 2
        /\ \A i \in 1..Len(call.rpc.val) :
              LET c == call.rpc.val[i]
                  out == Chr(call.r.cval[i + 1])
              IN  Find(a, c) # -1 =>
                      /\ Find(b, out) = Find(a, c)
                      /\ a[Find(b, out) + 1] = c

\* encrypt with row 0 as the plaintext row replaced a character
C19_Witness ==
    /\ call.op = "encrypt" /\ call.done /\ call.rpc.cipher = CIPHER
    /\ call.r.ra = 0
    /\ call.rpc.val = <<"A", ";">>
    /\ Chr(call.r.cval[2]) # "A"

\* C20: the two rows encrypt draws are distinct, both non-zero, and both
\* are rows of the cipher table.
C20_RowsDistinctNonZeroExisting ==
    (call.op = "encrypt" /\ call.done) =>
        /\ call.r.ra # call.r.rb
        /\ call.r.ra # 0 /\ call.r.rb # 0
        /\ call.r.ra + 1 <= Len(call.rpc.cipher)
        /\ call.r.rb + 1 <= Len(call.rpc.cipher)

\* C21: a borrow receives the connection put into the store last, and with
\* calls made one after the other every borrow receives the connection
\* with poolId 1, the one on top of the freshly built store.
C21_LifoReusesFirst ==
    call.op = "pool.invokeRPC" =>
        /\ call.poolId = Last(prebuildConnections(PoolSize))
        /\ call.poolId = 1

\* the requests a CIA invokeRPC itself has built, in order: connect() builds
\* two when it gets through, before the first attempt (lazy connect) and
\* before the resend
RpcRequestsBuilt(r) ==
    LET first == IF r.entry = "None" THEN 3 ELSE 1
    IN  IF Len(r.built) < first THEN <<>>
        ELSE IF Len(r.built) = first THEN <<r.built[first]>>
        ELSE <<r.built[first], r.built[Len(r.built)]>>

\* C22: when the first attempt of an invokeRPC on a CIA transport meets a
\* send error or an empty reply and the peer accepts the reconnect, the
\* request written after the reconnect is the request written on the first
\* attempt, character for character.
C22_ResendIdentical ==
    (/\ call.op = "CIA.invokeRPC"
     /\ ~call.rpc.peer.refused
     /\ call.rpc.peer.auth = IO("none", CIAAuthReply)
     /\ call.rpc.peer.first \in {IO("send", <<>>), IO("none", ClosedReply)})
    => LET built == RpcRequestsBuilt(call.r)
       IN  Len(built) = 2 /\ built[1] = built[2]

\* the pair chr(0) chr(0) at the very start of a chunk
LeadingPair(chunk) == Len(chunk) >= 2 /\ chunk[1] = NUL /\ chunk[2] = NUL

\* the chunks of a reply with the leading pair of the first one taken off
Kept(stream) ==
    [i \in 1..Len(stream) |->
        IF i = 1 /\ LeadingPair(stream[1])
        THEN SubSeq(stream[1], 3, Len(stream[1]))
        ELSE stream[i]]

EndsWithMark(chunk) == chunk # <<>> /\ chunk[Len(chunk)] = VistAEndMark

\* the reply a read of the stream has to return: the kept chunks up to the
\* first one that ends with the end marker, without that marker, or all of
\* them when none does
ExpectedReply(stream) ==
    LET kept == Kept(stream)
        stops == {i \in 1..Len(kept) : EndsWithMark(kept[i])}
    IN  IF stops = {} THEN Join(kept)
        ELSE LET k == CHOOSE i \in stops : \A j \in stops : i <= j
                 text == Join(SubSeq(kept, 1, k))
             IN  SubSeq(text, 1, Len(text) - 1)

\* the first chunk has no chr(0) in front, or the whole pair and more
PlainFirstChunk(stream) ==
    stream # <<>> =>
        \/ stream[1][1] # NUL
        \/ LeadingPair(stream[1]) /\ Len(stream[1]) > 2

C24_StripsLeadingPairSafely ==
    (call.op = "readToEndMarker" /\ call.done)
    => /\ call.r.exc = "none"
       /\ call.r.msg = ExpectedReply(call.rpc)

\* C25: when the peer has closed the stream so that the reply to a request
\* after TCPConnect is empty, connect() raises a handshake error and does
\* not leave the transport Ready.
C25_EmptyHandshakeReplyRejected ==
    (call.op = "connect" /\ call.r.hsClosed)
    => (call.r.exc # "none" /\ ~ready[Mine])

\* C26: a transport has at most one socket that is not closed, after every
\* call, however many times the call has connected.
C26_AtMostOneSocket ==
    /\ call.r.live <= 1
    /\ call.r.live = (IF sock[Mine] \in {"fresh", "open"} THEN 1 ELSE 0)

\* an invokeRPC entered with an open socket has reconnected on its recovery
\* path and holds the one new socket
C26_Witness ==
    /\ IsInvoke
    /\ call.r.entry = "open"
    /\ Count(call.r.wire, "connect") = 1
    /\ sock[Mine] = "open"
    /\ call.r.live = 1

\* C27: after close() the transport is not Ready, and an invokeRPC entered
\* after close() sends its request only on a socket that connect() has
\* built, never on the closed one.
C27_NoWriteOnClosedSocket ==
    /\ (call.op = "close" /\ call.r.exc = "none") => ~ready[Mine]
    /\ (IsInvoke /\ call.r.entry = "closed")
         => \A i \in 1..Len(call.r.tried) : call.r.tried[i] # "closed"

\* the three characters at i are decimal digits and read as the number n
ThreeDigits(s, i, n) ==
    /\ i + 2 <= Len(s)
    /\ \A k \in i..(i + 2) : s[k] \in Digits
    /\ (Ord(s[i]) - Ord("0")) * 100 + (Ord(s[i + 1]) - Ord("0")) * 10
         + (Ord(s[i + 2]) - Ord("0")) = n

\* where the length fields of the parameters are when each is three
\* characters wide, from position i on: the positions with the texts they
\* measure, and the position behind the parameters
RECURSIVE PairFields(_, _, _)
PairFields(items, k, i) ==
    IF k > Len(items) THEN [fields |-> <<>>, next |-> i]
    ELSE LET j == IF k > 1 THEN i + 1 ELSE i
             v == j + 3 + Len(items[k][1])
             rest == PairFields(items, k + 1, v + 3 + Len(items[k][2]))
         IN  [fields |-> << <<j, items[k][1]>>, <<v, items[k][2]>> >> \o rest.fields,
              next |-> rest.next]

RECURSIVE LengthFields(_, _)
LengthFields(params, i) ==
    IF params = <<>> THEN [fields |-> <<>>, next |-> i]
    ELSE LET p == Head(params)
             own == IF p.kind = "dict"
                    THEN PairFields(p.items, 1, i + 1)
                    ELSE [fields |-> << <<i + 1, p.val>> >>,
                          next |-> i + 4 + Len(p.val)]
             rest == LengthFields(Tail(params), own.next + 1)
         IN  [fields |-> own.fields \o rest.fields, next |-> rest.next]

\* C28: in every request makeRequest builds, the length field of each
\* scalar parameter and of each key and value of a keyed collection is three
\* decimal digits that read as the length of the text behind it.
C28_LengthFieldsThreeDigits ==
    (call.op = "makeRequest" /\ call.done)
    => LET a == call.rpc
           start == 9 + (IF a.isCommand THEN 1 ELSE 3) + 1 + Len(a.name) + 2
           lf == LengthFields(a.params, start)
       IN  /\ \A k \in 1..Len(lf.fields) :
                 ThreeDigits(call.r, lf.fields[k][1], Len(lf.fields[k][2]))
           /\ a.params # <<>> => Len(call.r) = lf.next

\* C29: every request a CIA transport builds carries the next value of the
\* counter: one more than the value before, 1 after 255, always in 1..255.
\* The counter is the character behind {CIA} and the first chr(255).
C29_SequenceInRange ==
    (call.op = "__makeCIARequest" /\ call.done)
    => /\ call.r.exc = "none"
       /\ Len(call.r.request) >= 7
       /\ call.r.request[7] \in 1..255
       /\ call.r.request[7] =
            (IF call.rpc.sequence = 255 THEN 1 ELSE call.rpc.sequence + 1)

\* the authentication reply has a second line that starts with a decimal
\* number and "^"
SecondLineNumbered(io) ==
    /\ io.err = "none"
    /\ LET lines == Split(readToEndMarker(io.stream, CIAEndMark).msg, CR)
       IN  /\ Len(lines) > 1
           /\ \E k \in 1..Len(lines[2]) :
                 /\ \A i \in 1..k : lines[2][i] \in Digits
                 /\ k + 1 <= Len(lines[2]) /\ lines[2][k + 1] = "^"

\* the number the second line starts with
SessionNumber(io) ==
    LET line == Split(readToEndMarker(io.stream, CIAEndMark).msg, CR)[2]
        k == CHOOSE n \in 1..Len(line) :
                 /\ \A i \in 1..n : line[i] \in Digits
                 /\ line[n + 1] = "^"
    IN  SubSeq(line, 1, k)

\* C30: when the TCP connection is made and the connect message is
\* answered, CIARPCConnection.connect() returns exactly when the second
\* line of the authentication reply starts with a decimal number and "^",
\* the number is then self.uid, and for any other reply connect() raises.
C30_ConnectIffNumberedSecondLine ==
    (call.op = "CIA.connect" /\ ~call.rpc.peer.refused)
    => /\ (call.r.exc = "none") = SecondLineNumbered(call.rpc.peer.auth)
       /\ call.r.exc = "none"
            => (uid = SessionNumber(call.rpc.peer.auth) /\ ready[Mine])

\* a str as the bytes of its characters, all below chr(128)
RawBytes(text) == [i \in 1..Len(text) |-> Ord(text[i])]

\* one field as the wire format has it: the length header and the bytes of
\* the name, then the length header and the bytes of the value
FieldBytes(name, value) ==
    LengthHeader(Len(name)) \o RawBytes(name)
    \o LengthHeader(Len(value)) \o RawBytes(value)

\* C31: a CIA request for an RPC with the one parameter "2" is {CIA},
\* chr(255), the counter, R, then the fields CTX, UID, VER, RPC and "1" in
\* that order, each as the length header and bytes of its name followed at
\* once by the length header and bytes of its value, then chr(255).
C31_FieldsBackToBackInOrder ==
    (call.op = "__makeCIARequest" /\ call.done /\ call.rpc.rtype = "R")
    => /\ call.r.exc = "none"
       /\ SubSeq(call.r.request, 9, Len(call.r.request) - 1) =
            FieldBytes(<<"C", "T", "X">>, Context)
            \o FieldBytes(<<"U", "I", "D">>, <<>>)
            \o FieldBytes(<<"V", "E", "R">>, <<"0">>)
            \o FieldBytes(<<"R", "P", "C">>, call.rpc.name)
            \o FieldBytes(<<"1">>, <<"2">>)

\* the character the output has to hold for the plaintext character c: the
\* character of row b at the first position of c in row a, or c itself
RowSwap(rowa, rowb, c) ==
    LET at == {j \in 1..Len(rowa) : rowa[j] = c}
    IN  IF at = {} THEN c
        ELSE rowb[CHOOSE j \in at : \A k \in at : j <= k]

\* C32: the output of encrypt for a plaintext of n characters has n + 2
\* characters: chr(a + 32) first, chr(b + 32) last, and between them, for
\* each plaintext character in order, its counterpart of row b, or the
\* character itself when row a does not hold it.
C32_OutputLayout ==
    (call.op = "encrypt" /\ call.done /\ call.r.exc = "none")
    => LET n == Len(call.rpc.val)
           rowa == call.rpc.cipher[call.r.ra + 1]
           rowb == call.rpc.cipher[call.r.rb + 1]
       IN  /\ Len(call.r.cval) = n + 2
           /\ call.r.cval[1] = call.r.ra + 32
           /\ call.r.cval[n + 2] = call.r.rb + 32
           /\ \A i \in 1..n :
                 call.r.cval[i + 1] = Ord(RowSwap(rowa, rowb, call.rpc.val[i]))

\* a plaintext with a character of the rows and one outside them was
\* encrypted with two different rows
C32_Witness ==
    /\ call.op = "encrypt" /\ call.done /\ call.r.exc = "none"
    /\ call.rpc.val = <<"A", "^">>
    /\ call.r.ra = 3 /\ call.r.rb = 7
    /\ call.r.cval[2] # Ord("A")
    /\ call.r.cval[3] = Ord("^")

\* the last invokeRPC wrote its request on the socket it was entered with,
\* before any connect() of its own
WroteOnEnteredSocket ==
    /\ IsInvoke
    /\ call.r.entry = "open"
    /\ call.r.wire # <<>>
    /\ call.r.wire[1] = call.rpc

\* C33: over any sequence of connect(), invokeRPC and close() calls, an RPC
\* request is written only to a socket on which the four handshake steps
\* have completed: an invokeRPC that writes on the socket it finds wrote on
\* the socket of a connect() that returned, never on the one a connect()
\* that raised left behind.
C33_RpcOnlyAfterHandshake ==
    WroteOnEnteredSocket => call.r.entryReady

\* thread c leaves preconnect in this step because connect() raised
PreconnectRaises(c) == pc[c] = "pre_connect" /\ pc'[c] = "idle"

\* C34: when connect() raises on a transport during preconnect, every
\* transport that preconnect has taken from the store so far, the failing
\* one included, is in the store when preconnect exits.
C34_RaiseReturnsBorrowed ==
    [][\A c \in Callers :
         PreconnectRaises(c) =>
           \A t \in Held(c) :
             \E i \in 1..Len(connectionQueue') : connectionQueue'[i] = t]_vars

\* thread c waits in self.__connectionQueue.get()
InBorrow(c) == pc[c] \in {"pool_get", "pre_get"}

\* C35: with every connect() and transport invokeRPC returning, concurrent
\* preconnect and pool invokeRPC calls never reach a state in which every
\* caller waits in get() while the store is empty.
C35_NeverAllBlocked ==
    ~(connectionQueue = <<>> /\ \A c \in Callers : InBorrow(c))

\* how often TIU UNLOCK RECORD was invoked for the record of the call
UnlockCount ==
    Cardinality({i \in 1..Len(call.sent) :
                   /\ call.sent[i].name = "TIU UNLOCK RECORD"
                   /\ call.sent[i].ien = call.ien})

\* C36: in create_note and create_addendum, once the record has been
\* created, TIU UNLOCK RECORD is invoked for it exactly once before the
\* method returns or raises, on every path: never twice, and once, as the
\* last RPC, when the method is left.
C36_UnlockedExactlyOnce ==
    (call.op \in NoteOps /\ call.ien # <<>>) =>
        /\ UnlockCount <= 1
        /\ call.done => /\ UnlockCount = 1
                        /\ Last(call.sent).name = "TIU UNLOCK RECORD"

\* create_note has raised because locking failed, after unlocking
C36_Witness ==
    /\ call.op = "create_note" /\ call.done /\ call.ien = <<"7">>
    /\ call.r.exc = "Exception"
    /\ Len(call.sent) = 4
    /\ call.sent[3].name = "TIU LOCK RECORD"
    /\ call.sent[3].out.reply = <<"1", "^", "e">>
    /\ call.sent[4].name = "TIU UNLOCK RECORD"
    /\ call.sent[4].ien = <<"7">>

\* the reply to a TIU SET DOCUMENT TEXT call of a note of n lines was
\* returned and is not an error
TextReplyOk(n, out) ==
    /\ ~out.raised
    /\ (IF n = 0 THEN EmptyTextError(out.reply) ELSE PageTextError(out.reply))
         = <<>>

\* C37: _set_document_text sends a note of n lines as ceil(n/300) pages
\* (one when n = 0) in the order 1..pages with the header page^pages, at
\* most 300 lines in each and every line once in its order; it sends no
\* page after one whose reply is an error, and ends either after the last
\* page or at such a reply.
C37_PagesInOrder ==
    call.op = "_set_document_text" =>
        LET n == call.rpc.n
            pages == IF n = 0 THEN 1
                     ELSE (n + DOCUMENT_PAGE_SIZE - 1) \div DOCUMENT_PAGE_SIZE
            k == Len(call.sent)
            SentLines == Join([j \in 1..k |-> call.sent[j].body.text])
        IN  /\ k <= pages
            /\ \A j \in 1..k :
                 /\ call.sent[j].name = "TIU SET DOCUMENT TEXT"
                 /\ call.sent[j].body.hdr = Str(j) \o <<"^">> \o Str(pages)
                 /\ Len(call.sent[j].body.text) <= DOCUMENT_PAGE_SIZE
            /\ Len(SentLines) <= n
            /\ SentLines = [i \in 1..Len(SentLines) |-> filter_string(NoteLine(i))]
            /\ \A j \in 1..(k - 1) : TextReplyOk(n, call.sent[j].out)
            /\ call.done =>
                 \/ k = pages /\ Len(SentLines) = n
                 \/ ~TextReplyOk(n, call.sent[k].out)

\* a note of two full pages and one line was sent in three pages
C37_Witness ==
    /\ call.op = "_set_document_text" /\ call.done
    /\ call.rpc.n = 2 * DOCUMENT_PAGE_SIZE + 1
    /\ Len(call.sent) = 3
    /\ Len(call.sent[3].body.text) = 1
    /\ call.r.exc = "none" /\ call.r.value = <<>>

====
